---- MODULE Spec2Model ----
(***************************************************************************)
(* Agent Privacy Layer of moltworker2: channels, invitations and encrypted *)
(* messages kept in a blob store, served by request handlers that suspend  *)
(* at every storage round-trip.                                            *)
(*                                                                         *)
(* Every handler of the router is split at its storage operations: one     *)
(* action is one storage operation together with the synchronous code that *)
(* follows it up to the next storage operation.  Up to two requests are in *)
(* flight at a time and their actions interleave freely.                   *)
(*                                                                         *)
(* Conventions.  An optional value (T | null | undefined) is a sequence of *)
(* length 0 or 1.  A numeric field that the code only tests for truthiness *)
(* (maxParticipants, ttl, limit, before, after, minAmount) is 0 when it is *)
(* undefined, NaN or 0: the code treats the three alike.  A function that  *)
(* may throw returns [error, value]: error = "" and value = <<v>> when it  *)
(* returns v, and value = <<>> when it throws error.                       *)
(***************************************************************************)
EXTENDS Integers, Sequences, FiniteSets, TLC

(***************************** bounds **************************************)

\* Requests served in one behaviour.
MaxRequests == 4

\* Advances of the wall clock in one behaviour.
MaxTicks == 1

\* Channels created in one behaviour.
MaxChannels == 1

\* The requests in flight at the same time are held in these slots.
Slots == {1, 2}

(************************ program constants ********************************)

\* The clock of the model counts seconds: it reads Date.now() / 1000, and the
\* durations of the code, which are whole seconds, are divided by the same 1000.
\* That keeps every comparison of the code and keeps the sums within 32 bits.
MsPerSecond == 1000

\* 7 * 24 * 60 * 60 * 1000 ms, the lifetime of an invitation.
InvitationLifetime == (7 * 24 * 60 * 60 * 1000) \div MsPerSecond

\* parseInt(c.req.query('limit') || '50')
DefaultLimit == 50

\* Math.min(limit, 100)
LimitCap == 100

\* getChannelMessages(channelId, { limit: 100 }) of the statistics.
StatsLimit == 100

\* reputation: 50 of createAgent.
InitialReputation == 50

\* Math.max(0, Math.min(100, ...)) of adjustReputation.
MinReputation == 0

MaxReputation == 100

(******************************* state *************************************)

VARIABLES
    agents,             \* privacy/agents/<did>.json, by DID
    channels,           \* privacy/channels/<id>/metadata.json, by channel id
    invitations,        \* privacy/invitations/<id>.json, by invitation id
    messages,           \* privacy/channels/<c>/messages/<id>.json, by message id
    agentChannels,      \* privacy/agents/<did>/channels.json, by DID
    agentInvitations,   \* privacy/agents/<did>/invitations.json, by DID
    now,                \* Date.now()
    ticks,              \* advances of the clock so far
    nRequests,          \* requests served so far
    nChannelIds,        \* channel ids generated so far
    nInvitationIds,     \* invitation ids generated so far
    nMessageIds,        \* message ids generated so far
    req,                \* the requests in flight, by slot
    response,           \* the answer just sent, until the next step
    joined,             \* <<channel id, DID>> of every join that was performed
    call,               \* a pure function applied on its own: its name and arguments
    ret                 \* ... and what it returned

storeVars == << agents, channels, invitations, messages, agentChannels, agentInvitations >>

serviceVars == << agents, channels, invitations, messages, agentChannels, agentInvitations,
                  now, ticks, nRequests, nChannelIds, nInvitationIds, nMessageIds,
                  req, response, joined >>

fnVars == << call, ret >>

vars == << agents, channels, invitations, messages, agentChannels, agentInvitations,
           now, ticks, nRequests, nChannelIds, nInvitationIds, nMessageIds,
           req, response, joined, call, ret >>

(****************************** agents *************************************)

\* The agents registered before the behaviour starts: storage holds an agent
\* record for each.  Their names stand for their DIDs, which are well formed.
Agents == {"alice", "bob", "carol"}

\* A well-formed DID that names no registered agent.
Unregistered == "mallory"

DIDs == Agents \cup {Unregistered}

\* profile.nftCredentials of the stored agent records.
NftCredentials(did) ==
    IF did = "carol"
    THEN << [contract |-> "atomicassets", assetId |-> "1",
             schema |-> "moltbook.agent", verified |-> TRUE] >>
    ELSE IF did = "bob"
    THEN << [contract |-> "atomicassets", assetId |-> "2",
             schema |-> "moltbook.agent", verified |-> FALSE] >>
    ELSE << >>

\* The public keys of those agents.  A public key is modelled by the three
\* bytes that its SHA-256 digest repeats (see Digest).
PublicKeyOf(did) ==
    IF did = "alice" THEN << 1, 2, 3 >>
    ELSE IF did = "bob" THEN << 4, 5, 6 >>
    ELSE << 7, 8, 9 >>

\* The agent records stored before the behaviour starts, as createAgent makes
\* them: reputation 50.
StoredAgent(did) ==
    [did |-> did, publicKey |-> PublicKeyOf(did), createdAt |-> 0,
     profile |-> [name |-> did, capabilities |-> << >>, metadata |-> << >>,
                  reputation |-> InitialReputation,
                  nftCredentials |-> NftCredentials(did)]]

\* storage.getAgent(did): the agent record, or null.
getAgent(did) ==
    IF did \in DOMAIN agents THEN << agents[did] >> ELSE << >>

(****************************** helpers ************************************)

Truthy(n) == n # 0

Includes(seq, x) == \E k \in 1..Len(seq) : seq[k] = x

Min(a, b) == IF a < b THEN a ELSE b

Max(a, b) == IF a > b THEN a ELSE b

Thrown(msg) == [error |-> msg, value |-> << >>]

Returned(v) == [error |-> "", value |-> << v >>]

\* Array.prototype.slice(0, n).
Slice0(seq, n) ==
    IF n >= 0
    THEN SubSeq(seq, 1, Min(n, Len(seq)))
    ELSE SubSeq(seq, 1, Max(Len(seq) + n, 0))

\* Array.prototype.filter(p => p !== x).
Without(seq, x) == SelectSeq(seq, LAMBDA p : p # x)

Digits == << "0", "1", "2", "3", "4", "5", "6", "7", "8", "9" >>

RECURSIVE ParseDigits(_, _)
\* The value of the longest prefix of decimal digits of str, after acc.
ParseDigits(str, acc) ==
    IF str = << >> \/ ~Includes(Digits, str[1])
    THEN acc
    ELSE ParseDigits(Tail(str),
                     10 * acc + (CHOOSE d \in 0..9 : Digits[d + 1] = str[1]))

\* parseInt(str): an optional sign and the decimal digits that follow it.
\* Without any digit the result is NaN, which is 0 here: NaN is falsy as 0
\* is, and Math.min(NaN, 100) is NaN again.
ParseInt(str) ==
    LET negative == str # << >> /\ str[1] = "-"
        digits == IF str # << >> /\ str[1] \in {"-", "+"} THEN Tail(str) ELSE str
    IN  IF negative THEN 0 - ParseDigits(digits, 0) ELSE ParseDigits(digits, 0)

(***************************** crypto.ts ***********************************)

\* The alphabet of btoa: the character of each 6-bit value, from 0.
Base64Alphabet ==
    << "A", "B", "C", "D", "E", "F", "G", "H", "I", "J", "K", "L", "M",
       "N", "O", "P", "Q", "R", "S", "T", "U", "V", "W", "X", "Y", "Z",
       "a", "b", "c", "d", "e", "f", "g", "h", "i", "j", "k", "l", "m",
       "n", "o", "p", "q", "r", "s", "t", "u", "v", "w", "x", "y", "z",
       "0", "1", "2", "3", "4", "5", "6", "7", "8", "9", "+", "/" >>

Base64Char(sextet) == Base64Alphabet[sextet + 1]

RECURSIVE arrayBufferToBase64(_)
\* btoa of the bytes: three bytes make four characters, and a last group of
\* one or two bytes is padded with '='.  A string is a sequence of characters.
arrayBufferToBase64(bytes) ==
    IF Len(bytes) = 0
    THEN << >>
    ELSE IF Len(bytes) = 1
    THEN << Base64Char(bytes[1] \div 4),
            Base64Char((bytes[1] % 4) * 16), "=", "=" >>
    ELSE IF Len(bytes) = 2
    THEN << Base64Char(bytes[1] \div 4),
            Base64Char((bytes[1] % 4) * 16 + bytes[2] \div 16),
            Base64Char((bytes[2] % 16) * 4), "=" >>
    ELSE << Base64Char(bytes[1] \div 4),
            Base64Char((bytes[1] % 4) * 16 + bytes[2] \div 16),
            Base64Char((bytes[2] % 16) * 4 + bytes[3] \div 64),
            Base64Char(bytes[3] % 64) >>
         \o arrayBufferToBase64(SubSeq(bytes, 4, Len(bytes)))

\* The 6-bit value of a character of the alphabet.
Base64Value(char) == CHOOSE v \in 0..63 : Base64Alphabet[v + 1] = char

RECURSIVE atob(_)
\* The bytes of a base64 text: four characters make three bytes, and a last
\* group that ends with '=' or '==' makes two bytes or one.
atob(chars) ==
    IF Len(chars) < 4
    THEN << >>
    ELSE LET a == Base64Value(chars[1])
             b == Base64Value(chars[2])
             first == a * 4 + b \div 16
         IN  IF chars[3] = "="
             THEN << first >>
             ELSE LET c == Base64Value(chars[3])
                      second == (b % 16) * 16 + c \div 4
                  IN  IF chars[4] = "="
                      THEN << first, second >>
                      ELSE << first, second,
                              (c % 4) * 64 + Base64Value(chars[4]) >>
                           \o atob(SubSeq(chars, 5, Len(chars)))

\* base64ToArrayBuffer that reads the padding '=' as the character 'A'.
base64ToArrayBuffer_ReadsPadding(base64) ==
    atob([k \in 1..Len(base64) |-> IF base64[k] = "=" THEN "A" ELSE base64[k]])

base64ToArrayBuffer(base64) == atob(base64)

\* crypto.subtle.digest('SHA-256', data), which the platform computes: 32
\* bytes.  A key of the model is the three bytes its digest repeats, so that
\* the keys tried cover digests of every kind of byte.
Digest(data) == [k \in 1..32 |-> data[((k - 1) % 3) + 1]]

sha256(data) == arrayBufferToBase64(Digest(data))

\* crypto.subtle.sign('HMAC', key, hash of payload) as an ideal MAC: the
\* signature determines the key and the payload it was made with.
Hmac(key, payload) == [key |-> key, payload |-> payload]

\* signature is << >> for a missing or empty one.
verifySignature(payload, signature, publicKey) ==
    /\ signature # << >>
    /\ signature[1] = Hmac(publicKey, payload)

\* generateNonce: new Uint8Array(12).
NonceLength == 12

\* JSON.stringify and TextEncoder.encode of a message content [type, text],
\* which the platform computes: a byte for the type, then the bytes of the
\* text.  JsonParse is JSON.parse of TextDecoder.decode of such bytes.
JsonBytes(content) ==
    << IF content.type = "text" THEN 116 ELSE 115 >> \o content.text

JsonParse(bytes) ==
    [type |-> IF bytes[1] = 116 THEN "text" ELSE "system", text |-> Tail(bytes)]

\* crypto.subtle.encrypt({ name: 'AES-GCM', iv }, key, plaintext), which the
\* platform computes, as an authenticated cipher: the plaintext masked byte
\* by byte with the key and the iv, followed by a tag that determines both.
\* A key is modelled by one byte.
AesGcmMask(key, iv, k) == key + iv[((k - 1) % Len(iv)) + 1]

AesGcmEncrypt(key, iv, plaintext) ==
    [k \in 1..Len(plaintext) |-> (plaintext[k] + AesGcmMask(key, iv, k)) % 256]
    \o << key >> \o iv

\* crypto.subtle.decrypt: throws when the tag does not match key and iv.
AesGcmDecrypt(key, iv, ciphertext) ==
    LET n == Len(ciphertext) - Len(iv) - 1 IN
    IF n < 0 \/ SubSeq(ciphertext, n + 1, Len(ciphertext)) # << key >> \o iv
    THEN Thrown("OperationError")
    ELSE Returned([k \in 1..n |->
                      (ciphertext[k] + 512 - AesGcmMask(key, iv, k)) % 256])

encryptMessage(content, sharedKey, nonce) ==
    LET plaintext == JsonBytes(content)
        ciphertextBuffer == AesGcmEncrypt(sharedKey, nonce, plaintext)
    IN  [ciphertext |-> arrayBufferToBase64(ciphertextBuffer),
         nonce |-> arrayBufferToBase64(nonce)]

decryptMessage(ciphertext, nonce, sharedKey) ==
    LET ciphertextBuffer == base64ToArrayBuffer(ciphertext)
        nonceBuffer == base64ToArrayBuffer(nonce)
        plaintextBuffer == AesGcmDecrypt(sharedKey, nonceBuffer, ciphertextBuffer)
    IN  IF plaintextBuffer.error # ""
        THEN plaintextBuffer
        ELSE Returned(JsonParse(plaintextBuffer.value[1]))

(******************************* did.ts ************************************)

DID_METHOD == << "m", "o", "l", "t", "b", "o", "o", "k" >>

DID_PREFIX == << "d", "i", "d", ":" >> \o DID_METHOD \o << ":" >>

HexChars == {"a", "b", "c", "d", "e", "f",
             "0", "1", "2", "3", "4", "5", "6", "7", "8", "9"}

\* hash.slice(0, 32) of generateDID and the {32} of isValidDID.
IdentifierLength == 32

generateDID(publicKey) ==
    LET hash == sha256(publicKey)
        identifier == Slice0(hash, IdentifierLength)
    IN  DID_PREFIX \o identifier

RECURSIVE Split(_, _)
\* String.prototype.split(sep) for a one-character separator.
Split(str, sep) ==
    IF ~Includes(str, sep)
    THEN << str >>
    ELSE LET k == CHOOSE i \in 1..Len(str) :
                      /\ str[i] = sep
                      /\ \A j \in 1..(i - 1) : str[j] # sep
         IN  << SubSeq(str, 1, k - 1) >> \o Split(SubSeq(str, k + 1, Len(str)), sep)

\* << >> for null.
parseDID(did) ==
    IF ~(Len(did) >= 4 /\ SubSeq(did, 1, 4) = << "d", "i", "d", ":" >>)
    THEN << >>
    ELSE LET parts == Split(did, ":") IN
         IF Len(parts) # 3
         THEN << >>
         ELSE << [method |-> parts[2], identifier |-> parts[3]] >>

isValidDID(did) ==
    LET parsed == parseDID(did) IN
    IF parsed = << >> THEN FALSE
    ELSE IF parsed[1].method # DID_METHOD THEN FALSE
    ELSE IF ~( /\ Len(parsed[1].identifier) = IdentifierLength
               /\ \A k \in 1..IdentifierLength :
                      parsed[1].identifier[k] \in HexChars ) THEN FALSE
    ELSE TRUE

RECURSIVE DidString(_)
\* The DID as it keys the store and names agents in records: the characters
\* joined into one string.
DidString(chars) ==
    IF chars = << >> THEN "" ELSE chars[1] \o DidString(Tail(chars))

\* request is [publicKey, signature, profile], publicKey << >> when missing;
\* t is Date.now().  The payload signed is JSON.stringify({publicKey, profile}),
\* modelled by the record itself.
createAgent(request, t) ==
    LET payload == [publicKey |-> request.publicKey, profile |-> request.profile] IN
    IF request.publicKey = << >>
    THEN Thrown("Public key is required")
    ELSE IF request.signature = << >>
    THEN Thrown("Signature is required")
    ELSE IF ~verifySignature(payload, request.signature, request.publicKey)
    THEN Thrown("Invalid signature")
    ELSE Returned([did |-> DidString(generateDID(request.publicKey)),
                   publicKey |-> request.publicKey,
                   createdAt |-> t,
                   profile |-> [request.profile EXCEPT
                                   !.reputation = InitialReputation]])

\* A field of { ...profile, ...updates }: updates' when updates has the key.
Spread(update, old) == IF update = << >> THEN old ELSE update[1]

\* updateAgentProfile that takes the reputation of the updates.
updateAgentProfile_TakesReputation(agent, updates) ==
    [agent EXCEPT !.profile =
        [name |-> Spread(updates.name, @.name),
         capabilities |-> Spread(updates.capabilities, @.capabilities),
         metadata |-> Spread(updates.metadata, @.metadata),
         nftCredentials |-> Spread(updates.nftCredentials, @.nftCredentials),
         reputation |-> Spread(updates.reputation, @.reputation)]]

\* updates holds each key of AgentProfile as << >> when it is absent and as
\* << value >> when it is present.
updateAgentProfile(agent, updates) ==
    [agent EXCEPT !.profile =
        [name |-> Spread(updates.name, @.name),
         capabilities |-> Spread(updates.capabilities, @.capabilities),
         metadata |-> Spread(updates.metadata, @.metadata),
         nftCredentials |-> Spread(updates.nftCredentials, @.nftCredentials),
         reputation |-> agent.profile.reputation]]

\* addNFTCredential without its test for an existing entry.
addNFTCredential_AlwaysAppends(agent, credential) ==
    [agent EXCEPT !.profile.nftCredentials =
        Append(@, [contract |-> credential.contract,
                   assetId |-> credential.assetId,
                   schema |-> credential.schema,
                   verified |-> FALSE])]

\* credential is [contract, assetId, schema].
addNFTCredential(agent, credential) ==
    LET nftCredentials == agent.profile.nftCredentials
        exists == \E k \in 1..Len(nftCredentials) :
                      /\ nftCredentials[k].contract = credential.contract
                      /\ nftCredentials[k].assetId = credential.assetId
    IN  IF exists
        THEN agent
        ELSE [agent EXCEPT !.profile.nftCredentials =
                 Append(@, [contract |-> credential.contract,
                            assetId |-> credential.assetId,
                            schema |-> credential.schema,
                            verified |-> FALSE])]

\* { ...c, verified: true, verifiedAt: Date.now() } for the entries of that
\* contract and asset; t is Date.now().
verifyNFTCredential(agent, contract, assetId, t) ==
    [agent EXCEPT !.profile.nftCredentials =
        [k \in 1..Len(@) |->
            IF @[k].contract = contract /\ @[k].assetId = assetId
            THEN ("verifiedAt" :> t) @@ [@[k] EXCEPT !.verified = TRUE]
            ELSE @[k]]]

adjustReputation(agent, delta) ==
    [agent EXCEPT !.profile.reputation =
        Max(MinReputation, Min(MaxReputation, @ + delta))]

(*************************** channels.ts ***********************************)

\* acceptInvitation without its test of the expiry.
acceptInvitation_AcceptsAtAnyTime(invitation, t) ==
    IF invitation.status # "pending"
    THEN Thrown("Cannot accept invitation with status: " \o invitation.status)
    ELSE Returned([invitation EXCEPT !.status = "accepted"])

acceptInvitation(invitation, t) ==
    IF invitation.status # "pending"
    THEN Thrown("Cannot accept invitation with status: " \o invitation.status)
    ELSE IF t > invitation.expiresAt
    THEN Returned([invitation EXCEPT !.status = "expired"])
    ELSE Returned([invitation EXCEPT !.status = "accepted"])

\* rejectInvitation returning the invitation as it was read.
rejectInvitation_KeepsStatus(invitation) ==
    Returned(invitation)

rejectInvitation(invitation) ==
    IF invitation.status # "pending"
    THEN Thrown("Cannot reject invitation with status: " \o invitation.status)
    ELSE Returned([invitation EXCEPT !.status = "rejected"])

\* did.ts: some credential is verified and matches contract (and schema).
\* hasVerifiedNFT that counts unverified credentials too.
hasVerifiedNFT_CountsUnverified(agent, contract, schema) ==
    \E k \in 1..Len(agent.profile.nftCredentials) :
        LET c == agent.profile.nftCredentials[k] IN
        /\ c.contract = contract
        /\ (schema = "" \/ c.schema = schema)

hasVerifiedNFT(agent, contract, schema) ==
    \E k \in 1..Len(agent.profile.nftCredentials) :
        LET c == agent.profile.nftCredentials[k] IN
        /\ c.verified
        /\ c.contract = contract
        /\ (schema = "" \/ c.schema = schema)

Allowed == [allowed |-> TRUE, reason |-> ""]

Denied(reason) == [allowed |-> FALSE, reason |-> reason]

\* canAccessChannel that never reads allowedDIDs.
canAccessChannel_IgnoresAllowList(channel, agent) ==
    IF Includes(channel.participants, agent.did) THEN Allowed
    ELSE IF channel.accessControl = << >> THEN Denied("Not a participant")
    ELSE LET accessControl == channel.accessControl[1] IN
    CASE accessControl.type = "open" -> Allowed
      [] accessControl.type = "invite_only" ->
            Denied("Invite required")
      [] accessControl.type = "nft_gated" ->
            IF accessControl.nftGate = << >>
            THEN Denied("NFT gate not configured")
            ELSE LET nftGate == accessControl.nftGate[1]
                     nftCount == Len(SelectSeq(agent.profile.nftCredentials,
                                    LAMBDA c : /\ c.verified
                                               /\ c.contract = nftGate.contract
                                               /\ (nftGate.schema = ""
                                                   \/ c.schema = nftGate.schema)))
                 IN IF ~hasVerifiedNFT(agent, nftGate.contract, nftGate.schema)
                    THEN Denied("Required NFT not found")
                    ELSE IF Truthy(nftGate.minAmount) /\ nftCount < nftGate.minAmount
                    THEN Denied("Requires at least minAmount NFTs")
                    ELSE Allowed
      [] OTHER -> Denied("Unknown access control type")

canAccessChannel(channel, agent) ==
    IF Includes(channel.participants, agent.did) THEN Allowed
    ELSE IF channel.accessControl = << >> THEN Denied("Not a participant")
    ELSE LET accessControl == channel.accessControl[1] IN
    CASE accessControl.type = "open" -> Allowed
      [] accessControl.type = "invite_only" ->
            IF Includes(accessControl.allowedDIDs, agent.did)
            THEN Allowed
            ELSE Denied("Invite required")
      [] accessControl.type = "nft_gated" ->
            IF accessControl.nftGate = << >>
            THEN Denied("NFT gate not configured")
            ELSE LET nftGate == accessControl.nftGate[1]
                     nftCount == Len(SelectSeq(agent.profile.nftCredentials,
                                    LAMBDA c : /\ c.verified
                                               /\ c.contract = nftGate.contract
                                               /\ (nftGate.schema = ""
                                                   \/ c.schema = nftGate.schema)))
                 IN IF ~hasVerifiedNFT(agent, nftGate.contract, nftGate.schema)
                    THEN Denied("Required NFT not found")
                    ELSE IF Truthy(nftGate.minAmount) /\ nftCount < nftGate.minAmount
                    THEN Denied("Requires at least minAmount NFTs")
                    ELSE Allowed
      [] OTHER -> Denied("Unknown access control type")

\* addParticipant that tests the maximum before it looks for the DID.
addParticipant_ChecksLimitFirst(channel, participantDID) ==
    IF /\ Truthy(channel.maxParticipants)
       /\ Len(channel.participants) >= channel.maxParticipants
    THEN Thrown("Channel has reached maximum participants")
    ELSE IF Includes(channel.participants, participantDID)
    THEN Returned(channel)
    ELSE Returned([channel EXCEPT !.participants = Append(@, participantDID)])

addParticipant(channel, participantDID) ==
    IF Includes(channel.participants, participantDID)
    THEN Returned(channel)
    ELSE IF /\ Truthy(channel.maxParticipants)
            /\ Len(channel.participants) >= channel.maxParticipants
    THEN Thrown("Channel has reached maximum participants")
    ELSE Returned([channel EXCEPT !.participants = Append(@, participantDID)])

\* removeParticipant without its test of the remover.
removeParticipant_SkipsAuthorization(channel, participantDID, removerDID) ==
    IF participantDID = channel.createdBy
    THEN Thrown("Cannot remove channel creator")
    ELSE Returned([channel EXCEPT !.participants = Without(@, participantDID)])

\* removeParticipant without its test for the creator.
removeParticipant_RemovesCreator(channel, participantDID, removerDID) ==
    IF channel.createdBy # removerDID /\ participantDID # removerDID
    THEN Thrown("Not authorized to remove participant")
    ELSE Returned([channel EXCEPT !.participants = Without(@, participantDID)])

removeParticipant(channel, participantDID, removerDID) ==
    IF channel.createdBy # removerDID /\ participantDID # removerDID
    THEN Thrown("Not authorized to remove participant")
    ELSE IF participantDID = channel.createdBy
    THEN Thrown("Cannot remove channel creator")
    ELSE Returned([channel EXCEPT !.participants = Without(@, participantDID)])

Valid == [valid |-> TRUE, error |-> ""]

Invalid(error) == [valid |-> FALSE, error |-> error]

\* validateMessage without its first rule, the sender's membership.
validateMessage_SkipsSender(message, channel, senderDID) ==
    IF ~Truthy(message.channelId) \/ message.nonce = "" \/ message.ciphertext = ""
    THEN Invalid("Missing required fields")
    ELSE IF message.channelId # channel.id
    THEN Invalid("Channel ID mismatch")
    ELSE Valid

\* validateMessage that compares the channel ids before it looks for missing
\* fields.
validateMessage_MismatchFirst(message, channel, senderDID) ==
    IF ~Includes(channel.participants, senderDID)
    THEN Invalid("Not a channel participant")
    ELSE IF message.channelId # channel.id
    THEN Invalid("Channel ID mismatch")
    ELSE IF ~Truthy(message.channelId) \/ message.nonce = "" \/ message.ciphertext = ""
    THEN Invalid("Missing required fields")
    ELSE Valid

validateMessage(message, channel, senderDID) ==
    IF ~Includes(channel.participants, senderDID)
    THEN Invalid("Not a channel participant")
    ELSE IF ~Truthy(message.channelId) \/ message.nonce = "" \/ message.ciphertext = ""
    THEN Invalid("Missing required fields")
    ELSE IF message.channelId # channel.id
    THEN Invalid("Channel ID mismatch")
    ELSE Valid

\* id is the fresh generateId('msg'), t is Date.now().
\* createEncryptedMessage that leaves the ephemeral public key out.
createEncryptedMessage_DropsEphemeralKey(request, senderDID, id, t) ==
    [id |-> id, channelId |-> request.channelId, sender |-> senderDID,
     timestamp |-> t, nonce |-> request.nonce, ciphertext |-> request.ciphertext,
     ephemeralPubKey |-> << >>]

\* request.ephemeralPubKey is << >> when the request has none.
createEncryptedMessage(request, senderDID, id, t) ==
    [id |-> id, channelId |-> request.channelId, sender |-> senderDID,
     timestamp |-> t, nonce |-> request.nonce, ciphertext |-> request.ciphertext,
     ephemeralPubKey |-> request.ephemeralPubKey]

isMessageExpired(message, channel, t) ==
    IF ~Truthy(channel.ttl)
    THEN FALSE
    ELSE t > message.timestamp + (channel.ttl * 1000) \div MsPerSecond

RECURSIVE MaxTimestamp(_)
\* Math.max(...messages.map(m => m.timestamp)) of a non-empty list.
MaxTimestamp(msgs) ==
    IF Len(msgs) = 1
    THEN msgs[1].timestamp
    ELSE Max(msgs[1].timestamp, MaxTimestamp(Tail(msgs)))

\* lastActivity is << >> for null.
getChannelStats(channel, msgs, t) ==
    LET validMessages == SelectSeq(msgs, LAMBDA m : ~isMessageExpired(m, channel, t)) IN
    [participantCount |-> Len(channel.participants),
     messageCount |-> Len(validMessages),
     lastActivity |-> IF Len(validMessages) > 0
                      THEN << MaxTimestamp(validMessages) >>
                      ELSE << >>,
     isNFTGated |-> /\ channel.accessControl # << >>
                    /\ channel.accessControl[1].type = "nft_gated"]


\* createChannel without its lookup of every participant.
createChannel_SkipsLookup(request, creatorDID, channelId, firstInvitationId, t) ==
    LET allParticipants ==
            IF Includes(request.participants, creatorDID)
            THEN request.participants
            ELSE << creatorDID >> \o request.participants
        channel ==
            [id |-> channelId,
             participants |-> allParticipants,
             createdAt |-> t,
             createdBy |-> creatorDID,
             accessControl |->
                 IF request.accessControl = << >>
                 THEN << [type |-> "invite_only", allowedDIDs |-> << >>,
                          nftGate |-> << >>] >>
                 ELSE request.accessControl,
             maxParticipants |-> request.maxParticipants,
             ttl |-> request.ttl]
        invitees == Without(allParticipants, creatorDID)
        created ==
            [k \in 1..Len(invitees) |->
                [id |-> firstInvitationId + k - 1,
                 channelId |-> channelId,
                 inviter |-> creatorDID,
                 invitee |-> invitees[k],
                 createdAt |-> t,
                 expiresAt |-> t + InvitationLifetime,
                 encryptedChannelKey |-> << creatorDID, invitees[k] >>,
                 status |-> "pending"]]
    IN  IF Len(request.participants) = 0
        THEN Thrown("At least one participant is required")
        ELSE Returned([channel |-> channel, invitations |-> created])

\* request is [participants, accessControl, maxParticipants, ttl]; channelId and
\* firstInvitationId stand for the fresh generateId values, t for Date.now().
createChannel(request, creatorDID, channelId, firstInvitationId, t) ==
    LET allParticipants ==
            IF Includes(request.participants, creatorDID)
            THEN request.participants
            ELSE << creatorDID >> \o request.participants
        missing == SelectSeq(allParticipants, LAMBDA did : getAgent(did) = << >>)
        channel ==
            [id |-> channelId,
             participants |-> allParticipants,
             createdAt |-> t,
             createdBy |-> creatorDID,
             accessControl |->
                 IF request.accessControl = << >>
                 THEN << [type |-> "invite_only", allowedDIDs |-> << >>,
                          nftGate |-> << >>] >>
                 ELSE request.accessControl,
             maxParticipants |-> request.maxParticipants,
             ttl |-> request.ttl]
        invitees == Without(allParticipants, creatorDID)
        created ==
            [k \in 1..Len(invitees) |->
                [id |-> firstInvitationId + k - 1,
                 channelId |-> channelId,
                 inviter |-> creatorDID,
                 invitee |-> invitees[k],
                 createdAt |-> t,
                 expiresAt |-> t + InvitationLifetime,
                 encryptedChannelKey |-> << creatorDID, invitees[k] >>,
                 status |-> "pending"]]
    IN  IF Len(request.participants) = 0
        THEN Thrown("At least one participant is required")
        ELSE IF Len(missing) > 0
        THEN Thrown("Agent not found: " \o missing[1])
        ELSE Returned([channel |-> channel, invitations |-> created])

(*************************** storage.ts ************************************)

RECURSIVE SortedFrom(_, _)
\* The messages of msgs whose timestamp is in stamps, those of the greatest
\* timestamp first, and those of one timestamp in the order they have in msgs.
SortedFrom(msgs, stamps) ==
    IF stamps = {}
    THEN << >>
    ELSE LET greatest == CHOOSE t \in stamps : \A u \in stamps : t >= u
         IN  SelectSeq(msgs, LAMBDA m : m.timestamp = greatest)
             \o SortedFrom(msgs, stamps \ {greatest})

\* messages.sort((a, b) => b.timestamp - a.timestamp), a stable sort.
SortDescending(msgs) ==
    SortedFrom(msgs, {msgs[k].timestamp : k \in 1..Len(msgs)})

\* bucket.list({ prefix }) and a get of every listed object, in key order,
\* which is the order of the ids.  No route deletes a message, so the gets
\* return what the listing saw.
ListedMessages(channelId) ==
    LET ids == SelectSeq([id \in 1..nMessageIds |-> id],
                         LAMBDA id : /\ id \in DOMAIN messages
                                     /\ messages[id].channelId = channelId)
    IN  [k \in 1..Len(ids) |-> messages[ids[k]]]

\* options is [limit, before, after].
getChannelMessages(channelId, options) ==
    LET kept == SelectSeq(ListedMessages(channelId),
                    LAMBDA m : /\ ~(Truthy(options.before) /\ m.timestamp >= options.before)
                               /\ ~(Truthy(options.after) /\ m.timestamp <= options.after))
        sorted == SortDescending(kept)
    IN  IF Truthy(options.limit) THEN Slice0(sorted, options.limit) ELSE sorted

getChannel(id) == IF id \in DOMAIN channels THEN << channels[id] >> ELSE << >>

getInvitation(id) == IF id \in DOMAIN invitations THEN << invitations[id] >> ELSE << >>


(************************** request inputs *********************************)

NoOptions == [limit |-> 0, before |-> 0, after |-> 0]

Policy(type, allowedDIDs, nftGate) ==
    << [type |-> type, allowedDIDs |-> allowedDIDs, nftGate |-> nftGate] >>

\* A TTL in seconds as long as the lifetime of an invitation, so that the same
\* clock advances reach both expiries and both of their boundaries.
LongTtl == InvitationLifetime

Body(participants, accessControl, maxParticipants, ttl) ==
    [participants |-> participants, accessControl |-> accessControl,
     maxParticipants |-> maxParticipants, ttl |-> ttl]

\* The POST /channels requests that are tried, each with its caller.  The code
\* handles a DID as an opaque string, so one registered caller stands for all.
CreateChannelCalls ==
    { [agent |-> Unregistered, body |-> Body(<< "bob" >>, << >>, 0, 0)],
      [agent |-> "alice", body |-> Body(<< >>, << >>, 0, 0)],
      [agent |-> "alice", body |-> Body(<< Unregistered >>, << >>, 0, 0)],
      \* invite-only by default, with a TTL
      [agent |-> "alice", body |-> Body(<< "bob" >>, << >>, 0, LongTtl)],
      \* open, the caller listed among the participants, room for one more
      [agent |-> "alice",
       body |-> Body(<< "alice" >>, Policy("open", << >>, << >>), 2, 0)],
      \* more participants than maxParticipants
      [agent |-> "alice",
       body |-> Body(<< "bob", "carol" >>,
                     Policy("invite_only", << "carol" >>, << >>), 2, 0)] }

\* The bodies of POST /channels/:id/messages that are tried.
SendMessageBodies(channelId) ==
    { [channelId |-> channelId, nonce |-> "nonce", ciphertext |-> "cipher",
       ephemeralPubKey |-> << "ephemeral-key" >>],
      [channelId |-> channelId, nonce |-> "", ciphertext |-> "cipher",
       ephemeralPubKey |-> << >>],
      [channelId |-> channelId + 1, nonce |-> "nonce", ciphertext |-> "cipher",
       ephemeralPubKey |-> << >>] }

\* The values of the limit query parameter that are tried, as the characters
\* of the query string: absent, 1, 0, negative, non-numeric, above the cap.
LimitQueries ==
    { << >>, << "1" >>, << "0" >>, << "-", "1" >>, << "a", "b", "c" >>,
      << "1", "0", "1" >> }

\* The clock advances that are tried, in seconds: an invitation or a message
\* made just before is then at its expiry, or one second past it.
TickDeltas == {InvitationLifetime, InvitationLifetime + 1}

\* A credential as POST /agents/:did/nft stores it, and the same credential
\* marked verified.
Claimed == [contract |-> "atomicassets", assetId |-> "1",
            schema |-> "moltbook.agent", verified |-> FALSE]

Forged == [Claimed EXCEPT !.verified = TRUE]

\* The profile of a registration request.  The type leaves reputation out,
\* the JSON body may carry it: 0 stands for an absent one.
RequestProfiles ==
    [name : {"", "Agent"}, capabilities : {<< >>, << "chat" >>},
     metadata : {<< >>}, reputation : {0, 99},
     nftCredentials : {<< >>, << Claimed >>}]

\* signPayload(JSON.stringify({publicKey, profile}), key) by the client.
SignedRequest(publicKey, profile, key) ==
    [publicKey |-> publicKey, profile |-> profile,
     signature |-> << Hmac(key, [publicKey |-> publicKey, profile |-> profile]) >>]

RegistrationRequests ==
    {SignedRequest(<< 1, 2, 3 >>, p, k) :
        p \in RequestProfiles, k \in {<< 1, 2, 3 >>, << 4, 5, 6 >>}}
    \cup {[publicKey |-> << >>, profile |-> p, signature |-> << >>] :
            p \in RequestProfiles}
    \cup {[publicKey |-> << 1, 2, 3 >>, profile |-> p, signature |-> << >>] :
            p \in RequestProfiles}

\* Partial<AgentProfile> as a request body can carry it.
ProfileUpdates ==
    [name : {<< >>, << "New Name" >>},
     capabilities : {<< >>, << << "search" >> >>},
     metadata : {<< >>},
     reputation : {<< >>, << 100 >>},
     nftCredentials : {<< >>, << << >> >>, << << Forged >> >>}]

Deltas == {-100, -20, -1, 1, 10, 100}

(****************************** requests ***********************************)

Idle ==
    [op |-> "idle", pc |-> "idle", agent |-> "", channelId |-> 0,
     header |-> "",          \* the X-Agent-DID header, "" when absent
     invitationId |-> 0,
     channel |-> << >>,      \* the channel record read, or about to be written
     invitation |-> << >>,   \* the invitation record about to be written
     invitations |-> << >>,  \* createChannel's invitations
     message |-> << >>,      \* the message about to be written
     record |-> << >>,       \* the agent record about to be written
     options |-> NoOptions,  \* the options of getChannelMessages
     ids |-> << >>,          \* the index read by the current read-modify-write
     i |-> 0,                \* the position of the current loop
     status |-> 0, error |-> "",
     json |-> TRUE,          \* the answer is a c.json envelope
     data |-> << >>,         \* ids of the messages or invitations answered
     stats |-> << >>]

\* The request r answered with status and error.
Response(r, status, error) ==
    [Idle EXCEPT !.op = r.op, !.pc = "done", !.agent = r.agent,
                 !.header = r.header,
                 !.channelId = r.channelId, !.invitationId = r.invitationId,
                 !.status = status, !.error = error]

\* The request in slot s becomes r: when r is answered, the answer is sent and
\* the slot is free for the next request.
Moves(s, r) ==
    IF r.pc = "done"
    THEN /\ req' = [req EXCEPT ![s] = Idle]
         /\ response' = << [op |-> r.op, agent |-> r.agent,
                             header |-> r.header,
                             channelId |-> r.channelId,
                             invitationId |-> r.invitationId,
                             status |-> r.status, error |-> r.error,
                             json |-> r.json,
                             data |-> r.data, stats |-> r.stats] >>
    ELSE /\ req' = [req EXCEPT ![s] = r]
         /\ response' = << >>

\* A request arrives and is held in the first free slot.
Arrives(s) ==
    /\ req[s].pc = "idle"
    /\ \A other \in Slots : other < s => req[other].pc # "idle"
    /\ nRequests < MaxRequests
    /\ nRequests' = nRequests + 1

Request(op, agent, channelId, invitationId) ==
    [Idle EXCEPT !.op = op, !.agent = agent, !.header = agent,
                 !.channelId = channelId, !.invitationId = invitationId]

\* The answer of the router when the handler of r throws: no handler of the
\* routes and no onError catches it, so the answer is the router's own, the
\* text Internal Server Error with status 500.
Uncaught(r) ==
    [Response(r, 500, "Internal Server Error") EXCEPT !.json = FALSE]

\* Every handler starts with the same check, so the answer names no handler.
Unauthenticated(r) ==
    Response(Request("any", r.agent, 0, 0), 401, "Authentication required")

\* The public keys that registrations carry.  The digest of the second is
\* the bytes 0x69 0xA6 0x9A repeated, whose base64 text is "aaaa...".
RegistrationKeys == {<< 1, 2, 3 >>, << 105, 166, 154 >>}

\* The DIDs that registrations of those keys are given.
GeneratedDIDs == {DidString(generateDID(k)) : k \in RegistrationKeys}

\* Those of them that isValidDID accepts.
ValidGeneratedDIDs ==
    {DidString(generateDID(k)) :
        k \in {key \in RegistrationKeys : isValidDID(generateDID(key))}}

\* getAgentDID: the X-Agent-DID header when it is present and a valid DID,
\* else null.  "" is the absent header; the names of Agents and Unregistered
\* stand for well-formed DIDs.
getAgentDID(header) ==
    IF header = "" THEN << >>
    ELSE IF header \in DIDs \cup ValidGeneratedDIDs THEN << header >>
    ELSE << >>

\* requireAgent whose agent is made up from the header when none is stored.
requireAgent_TrustsHeader(header) ==
    IF getAgentDID(header) = << >> THEN << >>
    ELSE IF getAgent(header) # << >> THEN getAgent(header)
    ELSE << [StoredAgent("alice") EXCEPT !.did = header] >>

\* requireAgent: the agent stored for the X-Agent-DID header when the header
\* is a valid DID, else null.
requireAgent(header) ==
    IF getAgentDID(header) = << >> THEN << >> ELSE getAgent(header)

\* The X-Agent-DID headers that are not valid DIDs, the absent one among them.
BadHeaders == {"", "did:web:alice"}

\* The check that the handler of every channel, invitation and message route
\* starts with, on a header that is absent or not a valid DID.
AuthenticationRequired(s) ==
    \E header \in BadHeaders,
       op \in {"createChannel", "getChannel", "join", "leave", "listInvitations",
               "accept", "reject", "sendMessage", "getMessages"} :
        LET r == Request(op, header, 0, 0) IN
        /\ Arrives(s)
        /\ requireAgent(header) = << >>
        /\ Moves(s, Unauthenticated(r))
        /\ UNCHANGED << storeVars, now, ticks, nChannelIds, nInvitationIds,
                        nMessageIds, joined, call, ret >>

\* The channel ids that requests name: those generated so far.
ChannelIds == 1..nChannelIds

(************************* storage.saveChannel *****************************)

\* Where a request goes once saveChannel has returned.
AfterSaveChannel(r) ==
    IF r.op = "createChannel"
    THEN IF Len(r.invitations) = 0
         THEN Response(r, 201, "")
         ELSE [r EXCEPT !.pc = "saveInvitation", !.i = 1, !.ids = << >>]
    ELSE Response(r, 200, "")

\* The loop over channel.participants, after participant r.i.
NextParticipant(r) ==
    IF r.i < Len(r.channel[1].participants)
    THEN [r EXCEPT !.pc = "addChannelToAgent", !.i = r.i + 1, !.ids = << >>]
    ELSE AfterSaveChannel(r)

\* bucket.put(KEYS.channel(channel.id), channel)
SaveChannel(s) ==
    LET r == req[s]
        channel == r.channel[1] IN
    /\ r.pc = "saveChannel"
    /\ channels' = (channel.id :> channel) @@ channels
    /\ joined' = IF r.op = "join"
                 THEN joined \cup { << channel.id, r.agent >> }
                 ELSE joined
    /\ Moves(s,
                 IF Len(channel.participants) = 0
                 THEN AfterSaveChannel(r)
                 ELSE [r EXCEPT !.pc = "addChannelToAgent", !.i = 1])
    /\ UNCHANGED << agents, invitations, messages, agentChannels, agentInvitations,
                    now, ticks, nRequests, nChannelIds, nInvitationIds,
                    nMessageIds, call, ret >>

\* addChannelToAgent: bucket.get of the participant's channel index.
AddChannelToAgentGet(s) ==
    LET r == req[s]
        channel == r.channel[1]
        channelIds == agentChannels[channel.participants[r.i]] IN
    /\ r.pc = "addChannelToAgent"
    /\ Moves(s,
                 IF Includes(channelIds, channel.id)
                 THEN NextParticipant(r)
                 ELSE [r EXCEPT !.pc = "addChannelToAgent_put",
                                !.ids = channelIds])
    /\ UNCHANGED << storeVars, now, ticks, nRequests, nChannelIds,
                    nInvitationIds, nMessageIds, joined, call, ret >>

\* addChannelToAgent: bucket.put of the index read, with the channel id pushed.
AddChannelToAgentPut(s) ==
    LET r == req[s]
        channel == r.channel[1] IN
    /\ r.pc = "addChannelToAgent_put"
    /\ agentChannels' = [agentChannels EXCEPT ![channel.participants[r.i]] =
                            Append(r.ids, channel.id)]
    /\ Moves(s, NextParticipant(r))
    /\ UNCHANGED << agents, channels, invitations, messages, agentInvitations,
                    now, ticks, nRequests, nChannelIds, nInvitationIds,
                    nMessageIds, joined, call, ret >>

(************************ storage.saveInvitation ***************************)

\* The loop over createChannel's invitations, after invitation r.i.
NextInvitation(r) ==
    IF r.i < Len(r.invitations)
    THEN [r EXCEPT !.pc = "saveInvitation", !.i = r.i + 1, !.ids = << >>]
    ELSE Response(r, IF r.op = "saveInvitation" THEN 0 ELSE 201, "")

\* saveInvitation(invitation) called with a new pending invitation of alice,
\* as POST /channels calls it for each invitation of a creation.
SaveInvitationCall(s) ==
    \E invitee \in {"bob", "carol"} :
        LET invitation ==
                [id |-> nInvitationIds + 1, channelId |-> 1, inviter |-> "alice",
                 invitee |-> invitee, createdAt |-> now,
                 expiresAt |-> now + InvitationLifetime,
                 encryptedChannelKey |-> << "alice", invitee >>,
                 status |-> "pending"]
        IN  /\ Arrives(s)
            /\ nInvitationIds' = nInvitationIds + 1
            /\ Moves(s, [Request("saveInvitation", "alice", 1, 0) EXCEPT
                             !.pc = "saveInvitation", !.i = 1,
                             !.invitations = << invitation >>])
            /\ UNCHANGED << storeVars, now, ticks, nChannelIds, nMessageIds,
                            joined, call, ret >>

\* bucket.put(KEYS.invitation(invitation.id), invitation)
SaveInvitation(s) ==
    LET r == req[s]
        invitation == r.invitations[r.i] IN
    /\ r.pc = "saveInvitation"
    /\ invitations' = (invitation.id :> invitation) @@ invitations
    /\ Moves(s, [r EXCEPT !.pc = "addInvitationToAgent"])
    /\ UNCHANGED << agents, channels, messages, agentChannels, agentInvitations,
                    now, ticks, nRequests, nChannelIds, nInvitationIds,
                    nMessageIds, joined, call, ret >>

\* addInvitationToAgent: bucket.get of the invitee's invitation index.
AddInvitationToAgentGet(s) ==
    LET r == req[s]
        invitation == r.invitations[r.i]
        invitationIds == agentInvitations[invitation.invitee] IN
    /\ r.pc = "addInvitationToAgent"
    /\ Moves(s,
                 IF Includes(invitationIds, invitation.id)
                 THEN NextInvitation(r)
                 ELSE [r EXCEPT !.pc = "addInvitationToAgent_put",
                                !.ids = invitationIds])
    /\ UNCHANGED << storeVars, now, ticks, nRequests, nChannelIds,
                    nInvitationIds, nMessageIds, joined, call, ret >>

\* addInvitationToAgent: bucket.put of the index read, with the id pushed.
AddInvitationToAgentPut(s) ==
    LET r == req[s]
        invitation == r.invitations[r.i] IN
    /\ r.pc = "addInvitationToAgent_put"
    /\ agentInvitations' = [agentInvitations EXCEPT ![invitation.invitee] =
                               Append(r.ids, invitation.id)]
    /\ Moves(s, NextInvitation(r))
    /\ UNCHANGED << agents, channels, invitations, messages, agentChannels,
                    now, ticks, nRequests, nChannelIds, nInvitationIds,
                    nMessageIds, joined, call, ret >>


(************************* routes: channels ********************************)

\* POST /channels that saves the invitations first.
PostChannelsWith_InvitationsFirst(s, c) ==
        LET agent == c.agent
            body == c.body
            r == Request("createChannel", agent, 0, 0)
            made == createChannel(body, agent, nChannelIds + 1,
                                  nInvitationIds + 1, now) IN
        /\ Arrives(s)
        /\ IF requireAgent(agent) = << >>
           THEN /\ Moves(s, Unauthenticated(r))
                /\ UNCHANGED << agents, nChannelIds, nInvitationIds >>
           ELSE IF made.error # ""
           THEN /\ Moves(s, Response(r, 400, made.error))
                /\ UNCHANGED << agents, nChannelIds, nInvitationIds >>
           ELSE /\ nChannelIds < MaxChannels
                /\ nChannelIds' = nChannelIds + 1
                /\ nInvitationIds' = nInvitationIds + Len(made.value[1].invitations)
                /\ Moves(s,
                             [r EXCEPT !.pc = IF Len(made.value[1].invitations) = 0
                                                THEN "saveChannel"
                                                ELSE "saveInvitation",
                                       !.i = 1,
                                       !.channelId = made.value[1].channel.id,
                                       !.channel = << made.value[1].channel >>,
                                       !.invitations = made.value[1].invitations])
        /\ UNCHANGED << storeVars, now, ticks, nMessageIds, joined, call, ret >>

\* POST /channels with caller and body c, to its first write.  createChannel's
\* reads of the agent records are part of this step: the agent records do not
\* change.
PostChannelsWith(s, c) ==
        LET agent == c.agent
            body == c.body
            r == Request("createChannel", agent, 0, 0)
            made == createChannel(body, agent, nChannelIds + 1,
                                  nInvitationIds + 1, now) IN
        /\ Arrives(s)
        /\ IF requireAgent(agent) = << >>
           THEN /\ Moves(s, Unauthenticated(r))
                /\ UNCHANGED << agents, nChannelIds, nInvitationIds >>
           ELSE IF made.error # ""
           THEN /\ Moves(s, Response(r, 400, made.error))
                /\ UNCHANGED << agents, nChannelIds, nInvitationIds >>
           ELSE /\ nChannelIds < MaxChannels
                /\ nChannelIds' = nChannelIds + 1
                /\ nInvitationIds' = nInvitationIds + Len(made.value[1].invitations)
                /\ Moves(s,
                             [r EXCEPT !.pc = "saveChannel",
                                       !.channelId = made.value[1].channel.id,
                                       !.channel = << made.value[1].channel >>,
                                       !.invitations = made.value[1].invitations])
        /\ UNCHANGED << storeVars, now, ticks, nMessageIds, joined, call, ret >>

PostChannels(s) == \E c \in CreateChannelCalls : PostChannelsWith(s, c)

\* A storage operation of POST /channels throws, which the handler's catch
\* answers with 400, or the worker stops before the operation: the writes
\* made so far stay, those to come are not made.
CreationFails(s) ==
    LET r == req[s] IN
    /\ r.op = "createChannel"
    /\ r.pc \notin {"idle", "done"}
    /\ \E thrown \in BOOLEAN :
          IF thrown
          THEN Moves(s, Response(r, 400, "Storage failure"))
          ELSE /\ req' = [req EXCEPT ![s] = Idle]
               /\ response' = << >>
    /\ UNCHANGED << storeVars, now, ticks, nRequests, nChannelIds,
                    nInvitationIds, nMessageIds, joined, call, ret >>

\* POST /channels/:id/join, to its first write.  A throw of addParticipant is
\* not caught by the handler: the router answers 500.
PostJoin(s) ==
    \E agent \in DIDs, channelId \in ChannelIds :
        LET r == Request("join", agent, channelId, 0)
            channel == getChannel(channelId)
            access == canAccessChannel(channel[1], requireAgent(agent)[1])
            added == addParticipant(channel[1], agent) IN
        /\ Arrives(s)
        /\ Moves(s,
              IF requireAgent(agent) = << >> THEN Unauthenticated(r)
              ELSE IF channel = << >> THEN Response(r, 404, "Channel not found")
              ELSE IF Includes(channel[1].participants, agent) THEN Response(r, 200, "")
              ELSE IF ~access.allowed THEN Response(r, 403, access.reason)
              ELSE IF added.error # "" THEN Uncaught(r)
              ELSE [r EXCEPT !.pc = "saveChannel", !.channel = added.value])
        /\ UNCHANGED << storeVars, now, ticks, nChannelIds, nInvitationIds,
                        nMessageIds, joined, call, ret >>

\* POST /channels/:id/leave, to its first write.
PostLeave(s) ==
    \E agent \in DIDs, channelId \in ChannelIds :
        LET r == Request("leave", agent, channelId, 0)
            channel == getChannel(channelId)
            removed == removeParticipant(channel[1], agent, agent) IN
        /\ Arrives(s)
        /\ Moves(s,
              IF requireAgent(agent) = << >> THEN Unauthenticated(r)
              ELSE IF channel = << >> THEN Response(r, 404, "Channel not found")
              ELSE IF removed.error # "" THEN Response(r, 400, removed.error)
              ELSE [r EXCEPT !.pc = "saveChannel", !.channel = removed.value])
        /\ UNCHANGED << storeVars, now, ticks, nChannelIds, nInvitationIds,
                        nMessageIds, joined, call, ret >>

(************************ routes: invitations ******************************)

\* The loop of getAgentInvitations over the index read, after id r.i.
NextListed(r) ==
    IF r.i < Len(r.ids)
    THEN [r EXCEPT !.pc = "getInvitation", !.i = r.i + 1, !.invitation = << >>]
    ELSE [Response(r, 200, "") EXCEPT !.data = r.data]

\* GET /invitations: getAgentInvitations' bucket.get of the caller's index.
GetInvitations(s) ==
    \E agent \in DIDs :
        LET r == Request("listInvitations", agent, 0, 0)
            invitationIds == agentInvitations[agent] IN
        /\ Arrives(s)
        /\ Moves(s,
              IF requireAgent(agent) = << >> THEN Unauthenticated(r)
              ELSE IF Len(invitationIds) = 0 THEN Response(r, 200, "")
              ELSE [r EXCEPT !.pc = "getInvitation", !.ids = invitationIds, !.i = 1])
        /\ UNCHANGED << storeVars, now, ticks, nChannelIds, nInvitationIds,
                        nMessageIds, joined, call, ret >>

\* getAgentInvitations: getInvitation(id) and the expiry check.
GetAgentInvitationsGet(s) ==
    LET r == req[s]
        invitation == getInvitation(r.ids[r.i]) IN
    /\ r.pc = "getInvitation"
    /\ Moves(s,
          IF invitation # << >> /\ invitation[1].status = "pending"
          THEN IF now > invitation[1].expiresAt
               THEN [r EXCEPT !.pc = "updateInvitation",
                              !.invitation =
                                  << [invitation[1] EXCEPT !.status = "expired"] >>]
               ELSE NextListed([r EXCEPT !.data = Append(@, invitation[1].id)])
          ELSE NextListed(r))
    /\ UNCHANGED << storeVars, now, ticks, nRequests, nChannelIds,
                    nInvitationIds, nMessageIds, joined, call, ret >>

\* POST /invitations/:id/accept without its test of the invitee.
PostAccept_ForAnyAgent(s) ==
    \E agent \in DIDs, invitationId \in 1..nInvitationIds :
        LET r == Request("accept", agent, 0, invitationId)
            invitation == getInvitation(invitationId)
            accepted == acceptInvitation(invitation[1], now) IN
        /\ Arrives(s)
        /\ Moves(s,
              IF requireAgent(agent) = << >> THEN Unauthenticated(r)
              ELSE IF invitation = << >> THEN Response(r, 404, "Invitation not found")
              ELSE IF accepted.error # "" THEN Response(r, 400, accepted.error)
              ELSE [r EXCEPT !.pc = "updateInvitation",
                             !.channelId = invitation[1].channelId,
                             !.invitation = accepted.value])
        /\ UNCHANGED << storeVars, now, ticks, nChannelIds, nInvitationIds,
                        nMessageIds, joined, call, ret >>

\* POST /invitations/:id/accept, to its first write.
PostAccept(s) ==
    \E agent \in DIDs, invitationId \in 1..nInvitationIds :
        LET r == Request("accept", agent, 0, invitationId)
            invitation == getInvitation(invitationId)
            accepted == acceptInvitation(invitation[1], now) IN
        /\ Arrives(s)
        /\ Moves(s,
              IF requireAgent(agent) = << >> THEN Unauthenticated(r)
              ELSE IF invitation = << >> THEN Response(r, 404, "Invitation not found")
              ELSE IF invitation[1].invitee # agent
              THEN Response(r, 403, "This invitation is not for you")
              ELSE IF accepted.error # "" THEN Response(r, 400, accepted.error)
              ELSE [r EXCEPT !.pc = "updateInvitation",
                             !.channelId = invitation[1].channelId,
                             !.invitation = accepted.value])
        /\ UNCHANGED << storeVars, now, ticks, nChannelIds, nInvitationIds,
                        nMessageIds, joined, call, ret >>

\* POST /invitations/:id/reject, to its write.
PostReject(s) ==
    \E agent \in DIDs, invitationId \in 1..nInvitationIds :
        LET r == Request("reject", agent, 0, invitationId)
            invitation == getInvitation(invitationId)
            rejected == rejectInvitation(invitation[1]) IN
        /\ Arrives(s)
        /\ Moves(s,
              IF requireAgent(agent) = << >> THEN Unauthenticated(r)
              ELSE IF invitation = << >> THEN Response(r, 404, "Invitation not found")
              ELSE IF invitation[1].invitee # agent
              THEN Response(r, 403, "This invitation is not for you")
              ELSE IF rejected.error # "" THEN Response(r, 400, rejected.error)
              ELSE [r EXCEPT !.pc = "updateInvitation",
                             !.channelId = invitation[1].channelId,
                             !.invitation = rejected.value])
        /\ UNCHANGED << storeVars, now, ticks, nChannelIds, nInvitationIds,
                        nMessageIds, joined, call, ret >>

\* storage.updateInvitation: bucket.put of the invitation record, and where the
\* request goes from there.
UpdateInvitation(s) ==
    LET r == req[s]
        invitation == r.invitation[1] IN
    /\ r.pc = "updateInvitation"
    /\ invitations' = (invitation.id :> invitation) @@ invitations
    /\ Moves(s,
          IF r.op = "listInvitations" THEN NextListed(r)
          ELSE IF r.op = "accept" THEN [r EXCEPT !.pc = "getChannel"]
          ELSE Response(r, 200, ""))
    /\ UNCHANGED << agents, channels, messages, agentChannels, agentInvitations,
                    now, ticks, nRequests, nChannelIds, nInvitationIds,
                    nMessageIds, joined, call, ret >>

\* POST /invitations/:id/accept: getChannel(invitation.channelId) and
\* addParticipant, whose throw the handler catches.
AcceptGetChannel(s) ==
    LET r == req[s]
        channel == getChannel(r.invitation[1].channelId)
        added == addParticipant(channel[1], r.agent) IN
    /\ r.pc = "getChannel"
    /\ Moves(s,
          IF channel = << >> THEN Response(r, 200, "")
          ELSE IF added.error # "" THEN Response(r, 400, added.error)
          ELSE [r EXCEPT !.pc = "saveChannel", !.channel = added.value])
    /\ UNCHANGED << storeVars, now, ticks, nRequests, nChannelIds,
                    nInvitationIds, nMessageIds, joined, call, ret >>

(************************** routes: messages *******************************)

\* POST /channels/:id/messages by agent with body, to its write.
PostMessagesWith(s, agent, channelId, body) ==
        LET r == Request("sendMessage", agent, channelId, 0)
            channel == getChannel(channelId)
            validation == validateMessage(body, channel[1], agent)
            valid == /\ requireAgent(agent) # << >>
                     /\ channel # << >>
                     /\ validation.valid IN
        /\ Arrives(s)
        /\ Moves(s,
              IF requireAgent(agent) = << >> THEN Unauthenticated(r)
              ELSE IF channel = << >> THEN Response(r, 404, "Channel not found")
              ELSE IF ~validation.valid THEN Response(r, 400, validation.error)
              ELSE [r EXCEPT !.pc = "saveMessage",
                             !.message =
                                 << createEncryptedMessage(body, agent,
                                        nMessageIds + 1, now) >>])
        /\ nMessageIds' = IF valid THEN nMessageIds + 1 ELSE nMessageIds
        /\ UNCHANGED << storeVars, now, ticks, nChannelIds, nInvitationIds,
                        joined, call, ret >>

PostMessages(s) ==
    \E agent \in DIDs, channelId \in ChannelIds :
      \E body \in SendMessageBodies(channelId) :
        PostMessagesWith(s, agent, channelId, body)

\* storage.saveMessage: bucket.put of the message.
SaveMessage(s) ==
    LET r == req[s]
        message == r.message[1] IN
    /\ r.pc = "saveMessage"
    /\ messages' = (message.id :> message) @@ messages
    /\ Moves(s, Response(r, 201, ""))
    /\ UNCHANGED << agents, channels, invitations, agentChannels, agentInvitations,
                    now, ticks, nRequests, nChannelIds, nInvitationIds,
                    nMessageIds, joined, call, ret >>

\* GET /channels/:id/messages, to its listing.
GetMessages(s) ==
    \E agent \in DIDs, channelId \in ChannelIds, limit \in LimitQueries :
        LET r == Request("getMessages", agent, channelId, 0)
            channel == getChannel(channelId)
            access == canAccessChannel(channel[1], requireAgent(agent)[1]) IN
        /\ Arrives(s)
        /\ Moves(s,
              IF requireAgent(agent) = << >> THEN Unauthenticated(r)
              ELSE IF channel = << >> THEN Response(r, 404, "Channel not found")
              ELSE IF ~access.allowed THEN Response(r, 403, access.reason)
              ELSE [r EXCEPT !.pc = "getChannelMessages",
                             !.channel = channel,
                             !.options = [limit |->
                                              Min(IF limit = << >>
                                                  THEN DefaultLimit
                                                  ELSE ParseInt(limit), LimitCap),
                                          before |-> 0, after |-> 0]])
        /\ UNCHANGED << storeVars, now, ticks, nChannelIds, nInvitationIds,
                        nMessageIds, joined, call, ret >>

\* GET /channels/:id, to its listing.
GetChannel(s) ==
    \E agent \in DIDs, channelId \in ChannelIds :
        LET r == Request("getChannel", agent, channelId, 0)
            channel == getChannel(channelId)
            access == canAccessChannel(channel[1], requireAgent(agent)[1]) IN
        /\ Arrives(s)
        /\ Moves(s,
              IF requireAgent(agent) = << >> THEN Unauthenticated(r)
              ELSE IF channel = << >> THEN Response(r, 404, "Channel not found")
              ELSE IF ~access.allowed THEN Response(r, 403, access.reason)
              ELSE [r EXCEPT !.pc = "getChannelMessages",
                             !.channel = channel,
                             !.options = [limit |-> StatsLimit,
                                          before |-> 0, after |-> 0]])
        /\ UNCHANGED << storeVars, now, ticks, nChannelIds, nInvitationIds,
                        nMessageIds, joined, call, ret >>

MessageIds(msgs) == [k \in 1..Len(msgs) |-> msgs[k].id]

\* storage.getChannelMessages and the answer: the messages as listed for
\* GET /channels/:id/messages, their statistics for GET /channels/:id.
GetChannelMessages(s) ==
    LET r == req[s]
        listed == getChannelMessages(r.channelId, r.options) IN
    /\ r.pc = "getChannelMessages"
    /\ Moves(s,
          IF r.op = "getChannel"
          THEN [Response(r, 200, "") EXCEPT
                   !.stats = << getChannelStats(r.channel[1], listed, now) >>]
          ELSE [Response(r, 200, "") EXCEPT !.data = MessageIds(listed)])
    /\ UNCHANGED << storeVars, now, ticks, nRequests, nChannelIds,
                    nInvitationIds, nMessageIds, joined, call, ret >>

(***************************** environment *********************************)

(************************ storage.deleteChannel *****************************)

\* A store without the object of key id.
Deleted(store, id) == [k \in DOMAIN store \ {id} |-> store[k]]

\* Where deleteChannel goes after the index of participant r.i.
NextRemoved(r) ==
    IF r.i < Len(r.channel[1].participants)
    THEN [r EXCEPT !.pc = "removeChannelFromAgent", !.i = r.i + 1, !.ids = << >>]
    ELSE [r EXCEPT !.pc = "deleteChannelObject"]

\* deleteChannel(id), to its first index read: getChannel, and the return
\* when there is no channel.
DeleteChannel(s) ==
    \E channelId \in ChannelIds :
        LET r == Request("deleteChannel", "", channelId, 0)
            channel == getChannel(channelId) IN
        /\ Arrives(s)
        /\ Moves(s,
              IF channel = << >> THEN Response(r, 0, "")
              ELSE IF Len(channel[1].participants) = 0
              THEN [r EXCEPT !.pc = "deleteChannelObject", !.channel = channel]
              ELSE [r EXCEPT !.pc = "removeChannelFromAgent", !.i = 1,
                             !.channel = channel])
        /\ UNCHANGED << storeVars, now, ticks, nChannelIds, nInvitationIds,
                        nMessageIds, joined, call, ret >>

\* removeChannelFromAgent: bucket.get of the participant's channel index.  An
\* index that was never written reads as the empty one, which the put that
\* follows writes back empty.
RemoveChannelFromAgentGet(s) ==
    LET r == req[s]
        channelIds == agentChannels[r.channel[1].participants[r.i]] IN
    /\ r.pc = "removeChannelFromAgent"
    /\ Moves(s, [r EXCEPT !.pc = "removeChannelFromAgent_put",
                          !.ids = Without(channelIds, r.channelId)])
    /\ UNCHANGED << storeVars, now, ticks, nRequests, nChannelIds,
                    nInvitationIds, nMessageIds, joined, call, ret >>

\* removeChannelFromAgent: bucket.put of the index read, without the channel.
RemoveChannelFromAgentPut(s) ==
    LET r == req[s] IN
    /\ r.pc = "removeChannelFromAgent_put"
    /\ agentChannels' =
           [agentChannels EXCEPT ![r.channel[1].participants[r.i]] = r.ids]
    /\ Moves(s, NextRemoved(r))
    /\ UNCHANGED << agents, channels, invitations, messages, agentInvitations,
                    now, ticks, nRequests, nChannelIds, nInvitationIds,
                    nMessageIds, joined, call, ret >>

\* bucket.delete(KEYS.channel(id))
DeleteChannelObject(s) ==
    LET r == req[s] IN
    /\ r.pc = "deleteChannelObject"
    /\ channels' = Deleted(channels, r.channelId)
    /\ Moves(s, [r EXCEPT !.pc = "listMessages"])
    /\ UNCHANGED << agents, invitations, messages, agentChannels,
                    agentInvitations, now, ticks, nRequests, nChannelIds,
                    nInvitationIds, nMessageIds, joined, call, ret >>

\* bucket.list({ prefix: messagePrefix }): the keys of the channel's messages.
DeleteChannelList(s) ==
    LET r == req[s]
        listed == MessageIds(ListedMessages(r.channelId)) IN
    /\ r.pc = "listMessages"
    /\ Moves(s,
          IF Len(listed) = 0 THEN Response(r, 0, "")
          ELSE [r EXCEPT !.pc = "deleteMessage", !.i = 1, !.ids = listed])
    /\ UNCHANGED << storeVars, now, ticks, nRequests, nChannelIds,
                    nInvitationIds, nMessageIds, joined, call, ret >>

\* bucket.delete(obj.key) of the listed message r.i.
DeleteMessage(s) ==
    LET r == req[s] IN
    /\ r.pc = "deleteMessage"
    /\ messages' = Deleted(messages, r.ids[r.i])
    /\ Moves(s,
          IF r.i < Len(r.ids) THEN [r EXCEPT !.i = r.i + 1]
          ELSE Response(r, 0, ""))
    /\ UNCHANGED << agents, channels, invitations, agentChannels,
                    agentInvitations, now, ticks, nRequests, nChannelIds,
                    nInvitationIds, nMessageIds, joined, call, ret >>

(**************************** routes: agents *******************************)

\* The bodies of POST /agents/register that are tried: signed by the key they
\* carry (the first key with either of two profiles), signed by another key,
\* and without key.
RegisterBodies ==
    LET Named(n) == [name |-> n, capabilities |-> << >>, metadata |-> << >>,
                     reputation |-> 0, nftCredentials |-> << >>]
    IN  { SignedRequest(<< 1, 2, 3 >>, Named(""), << 1, 2, 3 >>),
          SignedRequest(<< 1, 2, 3 >>, Named("Agent"), << 1, 2, 3 >>),
          SignedRequest(<< 105, 166, 154 >>, Named(""), << 105, 166, 154 >>),
          SignedRequest(<< 1, 2, 3 >>, Named(""), << 4, 5, 6 >>),
          [publicKey |-> << >>, signature |-> << >>, profile |-> Named("")] }

\* The bodies of PATCH /agents/:did that are tried.
PatchBodies ==
    {updates \in ProfileUpdates :
        /\ updates.capabilities = << >>
        /\ updates.name # << >>
        /\ updates.reputation = << >> <=> updates.nftCredentials = << >>
        /\ updates.nftCredentials # << << >> >>}

\* POST /agents/register, to its write.
PostRegister(s) ==
    \E body \in RegisterBodies :
        LET r == Request("register", "", 0, 0)
            created == createAgent(body, now)
            agent == created.value[1] IN
        /\ Arrives(s)
        /\ Moves(s,
              IF body.publicKey = << >>
              THEN Response(r, 400, "Public key is required")
              ELSE IF created.error # "" THEN Response(r, 400, created.error)
              ELSE IF getAgent(agent.did) # << >>
              THEN Response([r EXCEPT !.agent = agent.did], 409,
                            "Agent with this public key already registered")
              ELSE [r EXCEPT !.pc = "saveAgent", !.agent = agent.did,
                             !.record = created.value])
        /\ UNCHANGED << storeVars, now, ticks, nChannelIds, nInvitationIds,
                        nMessageIds, joined, call, ret >>

\* PATCH /agents/:did, to its write.
PatchAgent(s) ==
    \E header \in {"", "alice", Unregistered} \cup GeneratedDIDs,
       did \in {"alice", Unregistered} \cup GeneratedDIDs,
       updates \in PatchBodies :
        LET r == [Request("updateProfile", did, 0, 0) EXCEPT !.header = header]
            authDID == getAgentDID(header)
            agent == getAgent(did) IN
        /\ Arrives(s)
        /\ Moves(s,
              IF authDID = << >> \/ authDID # << did >>
              THEN Response(r, 401, "Unauthorized")
              ELSE IF agent = << >> THEN Response(r, 404, "Agent not found")
              ELSE [r EXCEPT !.pc = "saveAgent",
                             !.record = << updateAgentProfile(agent[1], updates) >>])
        /\ UNCHANGED << storeVars, now, ticks, nChannelIds, nInvitationIds,
                        nMessageIds, joined, call, ret >>

\* The bodies of POST /agents/:did/nft that are tried: "" is a missing field.
NftBodies ==
    [contract : {"atomicassets"}, assetId : {"", "1"}, schema : {"moltbook.agent"}]

\* POST /agents/:did/nft, to its write.
PostNft(s) ==
    \E header \in {"", "alice", Unregistered},
       did \in {"alice", Unregistered},
       body \in NftBodies :
        LET r == [Request("addCredential", did, 0, 0) EXCEPT !.header = header]
            authDID == getAgentDID(header)
            agent == getAgent(did) IN
        /\ Arrives(s)
        /\ Moves(s,
              IF authDID = << >> \/ authDID # << did >>
              THEN Response(r, 401, "Unauthorized")
              ELSE IF body.contract = "" \/ body.assetId = "" \/ body.schema = ""
              THEN Response(r, 400, "contract, assetId, and schema are required")
              ELSE IF agent = << >> THEN Response(r, 404, "Agent not found")
              ELSE [r EXCEPT !.pc = "saveAgent",
                             !.record = << addNFTCredential(agent[1], body) >>])
        /\ UNCHANGED << storeVars, now, ticks, nChannelIds, nInvitationIds,
                        nMessageIds, joined, call, ret >>

\* storage.saveAgent: bucket.put of the agent record, and the answer.
SaveAgent(s) ==
    LET r == req[s]
        agent == r.record[1] IN
    /\ r.pc = "saveAgent"
    /\ agents' = (agent.did :> agent) @@ agents
    /\ Moves(s, Response(r, IF r.op = "register" THEN 201 ELSE 200, ""))
    /\ UNCHANGED << channels, invitations, messages, agentChannels,
                    agentInvitations, now, ticks, nRequests, nChannelIds,
                    nInvitationIds, nMessageIds, joined, call, ret >>

\* The wall clock advances.
Tick ==
    /\ ticks < MaxTicks
    /\ \E d \in TickDeltas : now' = now + d
    /\ ticks' = ticks + 1
    /\ response' = << >>
    /\ UNCHANGED << storeVars, nRequests, nChannelIds, nInvitationIds,
                    nMessageIds, req, joined, call, ret >>

NoCall == [fn |-> "none"]

Init ==
    /\ agents = [did \in Agents |-> StoredAgent(did)]
    /\ channels = << >>
    /\ invitations = << >>
    /\ messages = << >>
    /\ agentChannels = [did \in DIDs |-> << >>]
    /\ agentInvitations = [did \in DIDs |-> << >>]
    /\ now = 0
    /\ ticks = 0
    /\ nRequests = 0
    /\ nChannelIds = 0
    /\ nInvitationIds = 0
    /\ nMessageIds = 0
    /\ req = [s \in Slots |-> Idle]
    /\ response = << >>
    /\ joined = {}
    /\ call = NoCall
    /\ ret = << >>

Next ==
    \/ \E s \in Slots :
        \/ PostChannels(s)
        \/ SaveChannel(s)
        \/ AddChannelToAgentGet(s)
        \/ AddChannelToAgentPut(s)
        \/ SaveInvitation(s)
        \/ AddInvitationToAgentGet(s)
        \/ AddInvitationToAgentPut(s)
        \/ PostJoin(s)
        \/ PostLeave(s)
        \/ GetInvitations(s)
        \/ GetAgentInvitationsGet(s)
        \/ PostAccept(s)
        \/ PostReject(s)
        \/ UpdateInvitation(s)
        \/ AcceptGetChannel(s)
        \/ PostMessages(s)
        \/ SaveMessage(s)
        \/ GetMessages(s)
        \/ GetChannel(s)
        \/ GetChannelMessages(s)
        \/ PostRegister(s)
        \/ PatchAgent(s)
        \/ PostNft(s)
        \/ AuthenticationRequired(s)
        \/ CreationFails(s)
        \/ SaveInvitationCall(s)
        \/ SaveAgent(s)
        \/ DeleteChannel(s)
        \/ RemoveChannelFromAgentGet(s)
        \/ RemoveChannelFromAgentPut(s)
        \/ DeleteChannelObject(s)
        \/ DeleteChannelList(s)
        \/ DeleteMessage(s)
    \/ Tick

Spec == Init /\ [][Next]_vars


(*************************** specifications ********************************)
(* Each specification below runs the handlers that read or write what its  *)
(* claims are about, and leaves out the handlers that do neither.          *)

\* Channel creation, as every specification has it.
CreateChannel(s) ==
    \/ PostChannels(s)
    \/ SaveChannel(s)
    \/ AddChannelToAgentGet(s)
    \/ AddChannelToAgentPut(s)
    \/ SaveInvitation(s)
    \/ AddInvitationToAgentGet(s)
    \/ AddInvitationToAgentPut(s)

\* The handlers that write invitation records, and the clock they read.
NextInvitations ==
    \/ \E s \in Slots :
        \/ CreateChannel(s)
        \/ GetInvitations(s)
        \/ GetAgentInvitationsGet(s)
        \/ PostAccept(s)
        \/ PostReject(s)
        \/ UpdateInvitation(s)
        \/ AcceptGetChannel(s)
    \/ Tick

SpecInvitations == Init /\ [][NextInvitations]_vars

\* The handlers that write channel records.
NextChannels ==
    \E s \in Slots :
        \/ CreateChannel(s)
        \/ PostJoin(s)
        \/ PostLeave(s)
        \/ PostAccept(s)
        \/ PostReject(s)
        \/ UpdateInvitation(s)
        \/ AcceptGetChannel(s)

SpecChannels == Init /\ [][NextChannels]_vars

\* The handler that writes messages, and those that change who may.
NextSend ==
    \E s \in Slots :
        \/ CreateChannel(s)
        \/ PostJoin(s)
        \/ PostLeave(s)
        \/ PostMessages(s)
        \/ SaveMessage(s)

SpecSend == Init /\ [][NextSend]_vars

\* The handlers that write and read messages, and the clock they read.
NextRead ==
    \/ \E s \in Slots :
        \/ CreateChannel(s)
        \/ PostMessages(s)
        \/ SaveMessage(s)
        \/ GetMessages(s)
        \/ GetChannel(s)
        \/ GetChannelMessages(s)
    \/ Tick

SpecRead == Init /\ [][NextRead]_vars

(******************* acceptInvitation and rejectInvitation *****************)
(* The two functions applied on their own, to every invitation below and   *)
(* at every reading of the clock below.                                    *)

Statuses == {"pending", "accepted", "rejected", "expired"}

Terminal == {"accepted", "rejected", "expired"}

\* Readings of Date.now(): before, at and after the expiries below.
Times == {0, InvitationLifetime, InvitationLifetime + 1, InvitationLifetime + 2}

\* Invitations as createChannel makes them, in every status.
InvitationInputs ==
    { [id |-> 1, channelId |-> 1, inviter |-> "alice", invitee |-> invitee,
       createdAt |-> createdAt, expiresAt |-> createdAt + InvitationLifetime,
       encryptedChannelKey |-> << "alice", invitee >>, status |-> status] :
      invitee \in {"bob", "carol"}, createdAt \in {0, 1}, status \in Statuses }

InitFn ==
    /\ agents = [did \in Agents |-> StoredAgent(did)]
    /\ channels = << >>
    /\ invitations = << >>
    /\ messages = << >>
    /\ agentChannels = [did \in DIDs |-> << >>]
    /\ agentInvitations = [did \in DIDs |-> << >>]
    /\ now \in Times
    /\ ticks = 0
    /\ nRequests = 0
    /\ nChannelIds = 0
    /\ nInvitationIds = 0
    /\ nMessageIds = 0
    /\ req = [s \in Slots |-> Idle]
    /\ response = << >>
    /\ joined = {}
    /\ call \in [fn : {"acceptInvitation", "rejectInvitation"},
                 invitation : InvitationInputs]
    /\ ret = << >>

CallAcceptInvitation ==
    /\ call.fn = "acceptInvitation"
    /\ ret = << >>
    /\ ret' = << acceptInvitation(call.invitation, now) >>
    /\ UNCHANGED << serviceVars, call >>

CallRejectInvitation ==
    /\ call.fn = "rejectInvitation"
    /\ ret = << >>
    /\ ret' = << rejectInvitation(call.invitation) >>
    /\ UNCHANGED << serviceVars, call >>

NextFn ==
    \/ CallAcceptInvitation
    \/ CallRejectInvitation

SpecFn == InitFn /\ [][NextFn]_vars

(******************************* claims ************************************)

\* C1: in every reachable state the creator of every stored channel is among
\* its participants, whatever creations, joins, leaves, accepts and rejects
\* have run and however they interleaved.
C1_CreatorIsParticipant ==
    \A id \in DOMAIN channels :
        Includes(channels[id].participants, channels[id].createdBy)

\* C1 is exercised: the creator of a stored channel asked to leave it and was
\* refused.
C1_CreatorLeaveRefused ==
    /\ response # << >>
    /\ response[1].op = "leave"
    /\ response[1].status = 400
    /\ response[1].error = "Cannot remove channel creator"
    /\ response[1].channelId \in DOMAIN channels
    /\ channels[response[1].channelId].createdBy = response[1].agent

\* C2: every stored channel that sets maxParticipants has at most that many
\* participants, right after its creation and after every join and accept.
C2_WithinMaxParticipants ==
    \A id \in DOMAIN channels :
        Truthy(channels[id].maxParticipants) =>
            Len(channels[id].participants) <= channels[id].maxParticipants

\* C3: an invitation stored as accepted, rejected or expired is never stored
\* as pending by a later step, however accept, reject and list interleave.
C3_TerminalNeverPendingAgain ==
    [][\A id \in DOMAIN invitations :
          invitations[id].status \in Terminal =>
              invitations'[id].status # "pending"]_vars

\* C3 is exercised: an invitation is stored with a terminal status while a
\* request that read it earlier is about to write its own record over it.
C3_StaleWriteOverTerminal ==
    \E s \in Slots, id \in DOMAIN invitations :
        /\ invitations[id].status \in Terminal
        /\ req[s].pc = "updateInvitation"
        /\ req[s].invitation[1].id = id
        /\ req[s].invitation[1].status # invitations[id].status

\* C4: once an invitation is stored with a terminal status no later step
\* stores it with another status, also when requests interleave between
\* their read of the invitation and their write.
C4_TerminalNeverChanges ==
    [][\A id \in DOMAIN invitations :
          invitations[id].status \in Terminal =>
              invitations'[id].status = invitations[id].status]_vars

\* C5: acceptInvitation of a pending invitation returns it accepted when
\* now <= expiresAt and expired when now > expiresAt, rejectInvitation of a
\* pending invitation returns it rejected, every other field is as given, and
\* both throw, returning no invitation, when the status is not pending.
C5_AcceptRejectTransitions ==
    ret # << >> =>
        LET invitation == call.invitation
            result == ret[1]
            status == IF call.fn = "rejectInvitation" THEN "rejected"
                      ELSE IF now <= invitation.expiresAt THEN "accepted"
                      ELSE "expired"
        IN  IF invitation.status = "pending"
            THEN /\ result.error = ""
                 /\ result.value = << [invitation EXCEPT !.status = status] >>
            ELSE /\ result.error # ""
                 /\ result.value = << >>

\* C5 is exercised: a pending invitation was accepted after its expiry and
\* came back expired.
C5_AcceptedAfterExpiry ==
    /\ ret # << >>
    /\ call.fn = "acceptInvitation"
    /\ call.invitation.status = "pending"
    /\ now > call.invitation.expiresAt
    /\ ret[1].value # << >>
    /\ ret[1].value[1].status = "expired"

\* C6: when list, accept or reject reads a stored pending invitation after
\* its expiresAt, the record that operation stores has status expired.
C6_ExpiryObservedOnRead ==
    [][\A s \in Slots :
          ( /\ req[s].pc # "updateInvitation"
            /\ req'[s].pc = "updateInvitation"
            /\ req'[s].invitation[1].id \in DOMAIN invitations
            /\ invitations[req'[s].invitation[1].id].status = "pending"
            /\ now > invitations[req'[s].invitation[1].id].expiresAt )
          => req'[s].invitation[1].status = "expired"]_vars

\* C7: an invitee whose invitation is pending, rejected or expired, and who
\* has not joined, is not among the participants of the invitation's channel.
C7_InviteeNotYetParticipant ==
    \A i \in DOMAIN invitations :
        LET invitation == invitations[i] IN
        ( /\ invitation.status # "accepted"
          /\ invitation.channelId \in DOMAIN channels
          /\ << invitation.channelId, invitation.invitee >> \notin joined )
        => ~Includes(channels[invitation.channelId].participants,
                     invitation.invitee)

C9_SenderIsParticipantAtWrite ==
    [][\A id \in DOMAIN messages' :
          id \notin DOMAIN messages =>
              Includes(channels[messages'[id].channelId].participants,
                       messages'[id].sender)]_vars

\* C10: for a channel with a TTL, no message older than now minus the TTL is
\* in the answer of the message list, and none is counted in the statistics.
C10_NoExpiredMessageServed ==
    response # << >> =>
        LET r == response[1]
            ttl == (channels[r.channelId].ttl * 1000) \div MsPerSecond
            fresh == { id \in DOMAIN messages :
                          /\ messages[id].channelId = r.channelId
                          /\ messages[id].timestamp >= now - ttl }
        IN  /\ ( /\ r.op = "getMessages"
                 /\ r.status = 200
                 /\ Truthy(channels[r.channelId].ttl) )
               => \A k \in 1..Len(r.data) : r.data[k] \in fresh
            /\ ( /\ r.op = "getChannel"
                 /\ r.status = 200
                 /\ Truthy(channels[r.channelId].ttl) )
               => r.stats[1].messageCount <= Cardinality(fresh)

(************************* identity functions ******************************)

\* The bytes that public keys are made of: both ends of the range, and the
\* three bytes whose base64 text is "aaaa".
ByteSamples == {0, 105, 154, 166, 255}

PublicKeys == {<< a, b, c >> : a \in ByteSamples, b \in ByteSamples, c \in ByteSamples}

InitIdentity ==
    /\ agents = [did \in Agents |-> StoredAgent(did)]
    /\ channels = << >>
    /\ invitations = << >>
    /\ messages = << >>
    /\ agentChannels = [did \in DIDs |-> << >>]
    /\ agentInvitations = [did \in DIDs |-> << >>]
    /\ now = 0
    /\ ticks = 0
    /\ nRequests = 0
    /\ nChannelIds = 0
    /\ nInvitationIds = 0
    /\ nMessageIds = 0
    /\ req = [s \in Slots |-> Idle]
    /\ response = << >>
    /\ joined = {}
    /\ call \in [fn : {"generateDID"}, publicKey : PublicKeys]
    /\ ret = << >>

CallGenerateDID ==
    /\ call.fn = "generateDID"
    /\ ret = << >>
    /\ ret' = << generateDID(call.publicKey) >>
    /\ UNCHANGED << serviceVars, call >>

\* The DID just generated is generated again, from the same public key.
CallGenerateDIDAgain ==
    /\ call.fn = "generateDID"
    /\ Len(ret) = 1
    /\ ret' = ret \o << generateDID(call.publicKey) >>
    /\ UNCHANGED << serviceVars, call >>

NextIdentity == CallGenerateDID \/ CallGenerateDIDAgain

SpecIdentity == InitIdentity /\ [][NextIdentity]_vars

\* C13: every DID that generateDID returns is 'did:moltbook:' followed by
\* exactly 32 characters of [a-f0-9], satisfies isValidDID, and is the same
\* for the same public key.
C13_GeneratedDidIsHex ==
    \A k \in 1..Len(ret) :
        /\ Len(ret[k]) = Len(DID_PREFIX) + IdentifierLength
        /\ SubSeq(ret[k], 1, Len(DID_PREFIX)) = DID_PREFIX
        /\ \A j \in (Len(DID_PREFIX) + 1)..Len(ret[k]) : ret[k][j] \in HexChars
        /\ isValidDID(ret[k])
        /\ ret[k] = ret[1]


(************************** profile functions ******************************)

InitProfile ==
    /\ agents = [did \in Agents |-> StoredAgent(did)]
    /\ channels = << >>
    /\ invitations = << >>
    /\ messages = << >>
    /\ agentChannels = [did \in DIDs |-> << >>]
    /\ agentInvitations = [did \in DIDs |-> << >>]
    /\ now = 0
    /\ ticks = 0
    /\ nRequests = 0
    /\ nChannelIds = 0
    /\ nInvitationIds = 0
    /\ nMessageIds = 0
    /\ req = [s \in Slots |-> Idle]
    /\ response = << >>
    /\ joined = {}
    /\ call = NoCall
    /\ ret = << >>

\* The agent that the last application returned.
HasAgent == ret # << >> /\ ret[1].value # << >>

TheAgent == ret[1].value[1]

CallCreateAgent ==
    /\ ret = << >>
    /\ \E request \in RegistrationRequests :
        /\ call' = [fn |-> "createAgent", args |-> request]
        /\ ret' = << createAgent(request, now) >>
    /\ UNCHANGED serviceVars

CallUpdateAgentProfile ==
    /\ HasAgent
    /\ \E updates \in ProfileUpdates :
        /\ call' = [fn |-> "updateAgentProfile", args |-> updates]
        /\ ret' = << Returned(updateAgentProfile(TheAgent, updates)) >>
    /\ UNCHANGED serviceVars

CallAdjustReputation ==
    /\ HasAgent
    /\ \E delta \in Deltas :
        /\ call' = [fn |-> "adjustReputation", args |-> delta]
        /\ ret' = << Returned(adjustReputation(TheAgent, delta)) >>
    /\ UNCHANGED serviceVars

NextProfile ==
    \/ CallCreateAgent
    \/ CallUpdateAgentProfile
    \/ CallAdjustReputation

SpecProfile == InitProfile /\ [][NextProfile]_vars

\* C11: the agent that createAgent returns has reputation 50, a profile
\* update returns the agent with the reputation it had, whatever the update
\* carries, so only adjustReputation changes it, and the reputation of every
\* agent returned lies in 0..100.
C11_ReputationOnlyAdjusted ==
    [][ (ret' # << >> /\ ret'[1].value # << >>) =>
            LET after == ret'[1].value[1].profile.reputation IN
            /\ after \in MinReputation..MaxReputation
            /\ call'.fn = "createAgent" => after = InitialReputation
            /\ call'.fn = "updateAgentProfile" =>
                   after = TheAgent.profile.reputation
            /\ (HasAgent /\ after # TheAgent.profile.reputation) =>
                   call'.fn = "adjustReputation" ]_vars

\* An update that carries a reputation was applied to an agent whose
\* reputation had been adjusted, and the agent kept it.
C11_UpdateCarriedReputation ==
    /\ HasAgent
    /\ call.fn = "updateAgentProfile"
    /\ call.args.reputation # << >>
    /\ TheAgent.profile.reputation
           \notin {InitialReputation, call.args.reputation[1]}

\* C20: a profile update returns the agent with its DID, public key,
\* creation time, reputation and credential list (verified flags included)
\* as they were, whatever the update carries.
C20_UpdateKeepsIdentityAndCredentials ==
    [][ (HasAgent /\ call'.fn = "updateAgentProfile") =>
            LET before == TheAgent
                after == ret'[1].value[1]
            IN  /\ after.did = before.did
                /\ after.publicKey = before.publicKey
                /\ after.createdAt = before.createdAt
                /\ after.profile.reputation = before.profile.reputation
                /\ after.profile.nftCredentials = before.profile.nftCredentials ]_vars


(***************************** agent routes ********************************)

NextAgents ==
    \/ \E s \in Slots :
        \/ PostRegister(s)
        \/ PatchAgent(s)
        \/ SaveAgent(s)
    \/ Tick

SpecAgents == Init /\ [][NextAgents]_vars

\* C12: of the registration requests that carry one public key, run one
\* after the other or interleaved at the storage reads and writes, at most
\* one is answered 201: a registration is answered 201 only when no record
\* was stored for its DID, and a registration answered otherwise leaves the
\* stored records as they were.
C12_OneRegistrationPerKey ==
    [][ (response' # << >> /\ response'[1].op = "register") =>
            IF response'[1].status = 201
            THEN response'[1].agent \notin DOMAIN agents
            ELSE agents' = agents ]_vars


(************************ access and membership ****************************)

\* Credentials against the gate of atomicassets and moltbook.agent: the
\* required one unverified and verified, a second one verified, one of
\* another schema and one of another contract.
Unverified1 == [contract |-> "atomicassets", assetId |-> "1",
                schema |-> "moltbook.agent", verified |-> FALSE]

Verified1 == [Unverified1 EXCEPT !.verified = TRUE]

Verified2 == [Verified1 EXCEPT !.assetId = "2"]

OtherSchema == [Verified1 EXCEPT !.assetId = "3", !.schema = "other"]

OtherContract == [Verified1 EXCEPT !.assetId = "4", !.contract = "other"]

CredentialLists ==
    { << >>, << Unverified1 >>, << Verified1 >>, << Verified1, Verified2 >>,
      << Unverified1, Verified2 >>, << OtherSchema >>, << OtherContract >>,
      << OtherSchema, Verified1 >> }

AccessAgents ==
    { [StoredAgent(did) EXCEPT !.profile.nftCredentials = credentials] :
        did \in {"bob", "carol"}, credentials \in CredentialLists }

\* The policies of a channel: none, open, invite-only, credential-gated
\* without and with a gate, and a type the code does not know.
AccessPolicies ==
    { << >>, Policy("open", << >>, << >>), Policy("other", << >>, << >>),
      Policy("invite_only", << >>, << >>),
      Policy("invite_only", << "bob" >>, << >>),
      Policy("nft_gated", << >>, << >>) }
    \cup { Policy("nft_gated", << >>,
                  << [contract |-> "atomicassets", schema |-> schema,
                      minAmount |-> minAmount] >>) :
             schema \in {"", "moltbook.agent"}, minAmount \in {0, 1, 2} }

\* Channels of alice.
AccessChannels ==
    { [id |-> 1, participants |-> participants, createdAt |-> 0,
       createdBy |-> "alice", accessControl |-> accessControl,
       maxParticipants |-> 0, ttl |-> 0] :
        participants \in {<< "alice" >>, << "alice", "bob" >>,
                          << "alice", "bob", "carol" >>},
        accessControl \in AccessPolicies }

InitAccess ==
    /\ agents = [did \in Agents |-> StoredAgent(did)]
    /\ channels = << >>
    /\ invitations = << >>
    /\ messages = << >>
    /\ agentChannels = [did \in DIDs |-> << >>]
    /\ agentInvitations = [did \in DIDs |-> << >>]
    /\ now = 0
    /\ ticks = 0
    /\ nRequests = 0
    /\ nChannelIds = 0
    /\ nInvitationIds = 0
    /\ nMessageIds = 0
    /\ req = [s \in Slots |-> Idle]
    /\ response = << >>
    /\ joined = {}
    /\ call \in [fn : {"canAccessChannel"}, channel : AccessChannels,
                 agent : AccessAgents]
               \cup [fn : {"removeParticipant"}, channel : AccessChannels,
                     participantDID : DIDs, removerDID : DIDs]
    /\ ret = << >>

CallCanAccessChannel ==
    /\ call.fn = "canAccessChannel"
    /\ ret = << >>
    /\ ret' = << canAccessChannel(call.channel, call.agent) >>
    /\ UNCHANGED << serviceVars, call >>

CallRemoveParticipant ==
    /\ call.fn = "removeParticipant"
    /\ ret = << >>
    /\ ret' = << removeParticipant(call.channel, call.participantDID,
                                   call.removerDID) >>
    /\ UNCHANGED << serviceVars, call >>

NextAccess == CallCanAccessChannel \/ CallRemoveParticipant

SpecAccess == InitAccess /\ [][NextAccess]_vars

\* C14: canAccessChannel allows every participant whatever the policy; a
\* non-participant it allows under open, allows under invite_only exactly
\* when its DID is in allowedDIDs and else denies with 'Invite required',
\* and denies with 'Not a participant' when the channel has no policy.
C14_ParticipantsOpenAndInviteOnly ==
    (call.fn = "canAccessChannel" /\ ret # << >>) =>
        LET did == call.agent.did
            policy == call.channel.accessControl
            invited == \E k \in 1..Len(policy[1].allowedDIDs) :
                           policy[1].allowedDIDs[k] = did
        IN  IF \E k \in 1..Len(call.channel.participants) :
                   call.channel.participants[k] = did
            THEN ret[1].allowed
            ELSE /\ policy = << >> =>
                        ret[1] = [allowed |-> FALSE, reason |-> "Not a participant"]
                 /\ (policy # << >> /\ policy[1].type = "open") => ret[1].allowed
                 /\ (policy # << >> /\ policy[1].type = "invite_only") =>
                        /\ ret[1].allowed <=> invited
                        /\ ~invited => ret[1].reason = "Invite required"

\* A non-participant on the allow list of an invite-only channel was allowed.
C14_InvitedNonParticipantAllowed ==
    /\ call.fn = "canAccessChannel" /\ ret # << >>
    /\ ~Includes(call.channel.participants, call.agent.did)
    /\ call.channel.accessControl # << >>
    /\ call.channel.accessControl[1].type = "invite_only"
    /\ Includes(call.channel.accessControl[1].allowedDIDs, call.agent.did)
    /\ ret[1].allowed

\* C15: under an nft_gated policy with a gate, a non-participant is allowed
\* exactly when it holds at least one verified credential of the gate's
\* contract (and of the gate's schema when set) and, when minAmount is set,
\* at least minAmount of them; with no such credential, an unverified one
\* included, it is denied with 'Required NFT not found'.
C15_GateCountsVerifiedCredentials ==
    ( /\ call.fn = "canAccessChannel" /\ ret # << >>
      /\ \A k \in 1..Len(call.channel.participants) :
             call.channel.participants[k] # call.agent.did
      /\ call.channel.accessControl # << >>
      /\ call.channel.accessControl[1].type = "nft_gated"
      /\ call.channel.accessControl[1].nftGate # << >> ) =>
        LET gate == call.channel.accessControl[1].nftGate[1]
            credentials == call.agent.profile.nftCredentials
            matching == {k \in 1..Len(credentials) :
                            /\ credentials[k].verified = TRUE
                            /\ credentials[k].contract = gate.contract
                            /\ gate.schema # "" =>
                                   credentials[k].schema = gate.schema}
        IN  /\ ret[1].allowed <=>
                   /\ Cardinality(matching) >= 1
                   /\ gate.minAmount # 0 => Cardinality(matching) >= gate.minAmount
            /\ matching = {} => ret[1].reason = "Required NFT not found"

\* A non-participant whose only matching credential is unverified was denied
\* by a gate without minimum.
C15_UnverifiedOnlyDenied ==
    /\ call.fn = "canAccessChannel" /\ ret # << >>
    /\ ~Includes(call.channel.participants, call.agent.did)
    /\ call.channel.accessControl # << >>
    /\ call.channel.accessControl[1].type = "nft_gated"
    /\ call.channel.accessControl[1].nftGate # << >>
    /\ call.channel.accessControl[1].nftGate[1].minAmount = 0
    /\ call.agent.profile.nftCredentials = << Unverified1 >>
    /\ ret[1] = [allowed |-> FALSE, reason |-> "Required NFT not found"]

\* C16: removeParticipant fails with 'Not authorized to remove participant'
\* when the remover is neither the creator nor the target, fails with
\* 'Cannot remove channel creator' when an authorized remover targets the
\* creator, and otherwise returns the channel with exactly the target
\* removed from participants and every other field unchanged.
C16_RemoveParticipantOutcomes ==
    (call.fn = "removeParticipant" /\ ret # << >>) =>
        LET before == call.channel
            target == call.participantDID
            remover == call.removerDID
        IN  IF remover # before.createdBy /\ remover # target
            THEN ret[1] = [error |-> "Not authorized to remove participant",
                           value |-> << >>]
            ELSE IF target = before.createdBy
            THEN ret[1] = [error |-> "Cannot remove channel creator",
                           value |-> << >>]
            ELSE /\ ret[1].error = ""
                 /\ LET after == ret[1].value[1] IN
                    /\ [after EXCEPT !.participants = before.participants] = before
                    /\ \A did \in DIDs :
                           (\E k \in 1..Len(after.participants) :
                                after.participants[k] = did)
                           <=> ( /\ did # target
                                 /\ \E k \in 1..Len(before.participants) :
                                        before.participants[k] = did )
                    /\ Len(after.participants) =
                           Cardinality({k \in 1..Len(before.participants) :
                                           before.participants[k] # target})

\* A remover who is neither the creator nor the target was refused, the
\* target being a participant.
C16_StrangerRefused ==
    /\ call.fn = "removeParticipant" /\ ret # << >>
    /\ call.removerDID \notin {call.channel.createdBy, call.participantDID}
    /\ Includes(call.channel.participants, call.participantDID)
    /\ call.participantDID # call.channel.createdBy
    /\ ret[1].error = "Not authorized to remove participant"


(************************** invitee only ***********************************)

\* C17: an accept or reject request for a stored invitation, made by a
\* registered agent that is not its invitee, is answered 403, and the step
\* that answers it leaves the invitation records and the channel records
\* unchanged; no other answer is ever sent to such a request.
C17_OnlyInviteeAnswers ==
    [][ ( /\ response' # << >>
          /\ response'[1].op \in {"accept", "reject"}
          /\ response'[1].agent \in DOMAIN agents
          /\ response'[1].invitationId \in DOMAIN invitations
          /\ invitations[response'[1].invitationId].invitee # response'[1].agent )
        => ( /\ response'[1].status = 403
             /\ invitations' = invitations
             /\ channels' = channels ) ]_vars

\* A registered agent was refused the rejection of another agent's pending
\* invitation.
C17_StrangerRejectRefused ==
    /\ response # << >>
    /\ response[1].op = "reject"
    /\ response[1].status = 403
    /\ response[1].agent \in DOMAIN agents
    /\ response[1].invitationId \in DOMAIN invitations
    /\ invitations[response[1].invitationId].invitee # response[1].agent
    /\ invitations[response[1].invitationId].status = "pending"


(***************************** message list ********************************)

\* The numbers of messages stored in the channel: none, one, and around the
\* cap of the limit.
StoredCounts == {0, 1, LimitCap, LimitCap + 1, LimitCap + 2}

\* An open channel of alice, stored with n messages that alice sent to it.
InitList ==
    \E n \in StoredCounts :
        /\ agents = [did \in Agents |-> StoredAgent(did)]
        /\ channels =
               1 :> createChannel(Body(<< "alice" >>, Policy("open", << >>, << >>),
                                       0, 0),
                                  "alice", 1, 1, 0).value[1].channel
        /\ invitations = << >>
        /\ messages =
               [id \in 1..n |->
                   createEncryptedMessage([channelId |-> 1, nonce |-> "nonce",
                                           ciphertext |-> "cipher",
                                           ephemeralPubKey |-> << >>],
                                          "alice", id, 0)]
        /\ agentChannels = [did \in DIDs |-> IF did = "alice" THEN << 1 >> ELSE << >>]
        /\ agentInvitations = [did \in DIDs |-> << >>]
        /\ now = 0
        /\ ticks = 0
        /\ nRequests = 0
        /\ nChannelIds = 1
        /\ nInvitationIds = 0
        /\ nMessageIds = n
        /\ req = [s \in Slots |-> Idle]
        /\ response = << >>
        /\ joined = {}
        /\ call = NoCall
        /\ ret = << >>

NextList ==
    \E s \in Slots :
        \/ GetMessages(s)
        \/ GetChannelMessages(s)

SpecList == InitList /\ [][NextList]_vars

\* C19: the answer of GET /channels/:id/messages never holds more than 100
\* messages, whatever the limit query parameter is.
C19_AtMostCapMessages ==
    (response # << >> /\ response[1].op = "getMessages") =>
        Len(response[1].data) <= LimitCap


(**************************** channel deletion *****************************)

NextDelete ==
    \E s \in Slots :
        \/ CreateChannel(s)
        \/ PostMessages(s)
        \/ SaveMessage(s)
        \/ DeleteChannel(s)
        \/ RemoveChannelFromAgentGet(s)
        \/ RemoveChannelFromAgentPut(s)
        \/ DeleteChannelObject(s)
        \/ DeleteChannelList(s)
        \/ DeleteMessage(s)

SpecDelete == Init /\ [][NextDelete]_vars

\* C18: when deleteChannel(id) has returned, the store holds no channel
\* record of id, no message of that channel, no invitation whose channelId
\* is id, and no agent's channel index that contains id.
C18_DeleteChannelCascades ==
    (response # << >> /\ response[1].op = "deleteChannel") =>
        LET id == response[1].channelId IN
        /\ id \notin DOMAIN channels
        /\ \A m \in DOMAIN messages : messages[m].channelId # id
        /\ \A i \in DOMAIN invitations : invitations[i].channelId # id
        /\ \A did \in DIDs : \A k \in 1..Len(agentChannels[did]) :
               agentChannels[did][k] # id


(************************* credential functions ****************************)

\* The credentials that agents claim.
ClaimedCredentials ==
    [contract : {"atomicassets"}, assetId : {"1", "2"},
     schema : {"moltbook.agent", "other"}]

\* A registered agent without credentials.
InitCredentials ==
    /\ agents = [did \in Agents |-> StoredAgent(did)]
    /\ channels = << >>
    /\ invitations = << >>
    /\ messages = << >>
    /\ agentChannels = [did \in DIDs |-> << >>]
    /\ agentInvitations = [did \in DIDs |-> << >>]
    /\ now = 0
    /\ ticks = 0
    /\ nRequests = 0
    /\ nChannelIds = 0
    /\ nInvitationIds = 0
    /\ nMessageIds = 0
    /\ req = [s \in Slots |-> Idle]
    /\ response = << >>
    /\ joined = {}
    /\ call = NoCall
    /\ ret = << Returned(StoredAgent("alice")) >>

CallAddNFTCredential ==
    /\ HasAgent
    /\ \E credential \in ClaimedCredentials :
        /\ call' = [fn |-> "addNFTCredential", args |-> credential]
        /\ ret' = << Returned(addNFTCredential(TheAgent, credential)) >>
    /\ UNCHANGED serviceVars

CallVerifyNFTCredential ==
    /\ HasAgent
    /\ \E credential \in ClaimedCredentials :
        /\ call' = [fn |-> "verifyNFTCredential", args |-> credential]
        /\ ret' = << Returned(verifyNFTCredential(TheAgent, credential.contract,
                                                  credential.assetId, now)) >>
    /\ UNCHANGED serviceVars

NextCredentials ==
    \/ CallAddNFTCredential
    \/ CallVerifyNFTCredential
    \/ CallUpdateAgentProfile

SpecCredentials == InitCredentials /\ [][NextCredentials]_vars

\* C21: a credential that an agent holds with verified = true is still in
\* the agent's list with verified = true after any add-credential,
\* mark-verified or profile-update operation.
C21_VerifiedStaysVerified ==
    [][ \A k \in 1..Len(TheAgent.profile.nftCredentials) :
            LET held == TheAgent.profile.nftCredentials[k]
                after == ret'[1].value[1].profile.nftCredentials
            IN  held.verified =>
                    \E j \in 1..Len(after) :
                        /\ after[j].contract = held.contract
                        /\ after[j].assetId = held.assetId
                        /\ after[j].verified ]_vars

\* C22: addNFTCredential appends the credential with verified = false only
\* when no entry has its (contract, assetId), leaves the agent as it is
\* otherwise, the entry's verified flag included, and applied once more with
\* the same credential changes nothing.
C22_AddCredentialIdempotent ==
    [][ call'.fn = "addNFTCredential" =>
            LET before == TheAgent.profile.nftCredentials
                after == ret'[1].value[1]
                present == \E k \in 1..Len(before) :
                               /\ before[k].contract = call'.args.contract
                               /\ before[k].assetId = call'.args.assetId
            IN  /\ present => after = TheAgent
                /\ ~present =>
                       /\ Len(after.profile.nftCredentials) = Len(before) + 1
                       /\ SubSeq(after.profile.nftCredentials, 1, Len(before)) = before
                       /\ after.profile.nftCredentials[Len(before) + 1] =
                              [contract |-> call'.args.contract,
                               assetId |-> call'.args.assetId,
                               schema |-> call'.args.schema,
                               verified |-> FALSE]
                       /\ [after EXCEPT !.profile.nftCredentials = before] = TheAgent
                /\ addNFTCredential(after, call'.args) = after ]_vars

\* A credential that the agent holds verified was added once more, and the
\* agent still holds it once, verified.
C22_VerifiedAddedAgain ==
    /\ HasAgent
    /\ call.fn = "addNFTCredential"
    /\ Len(TheAgent.profile.nftCredentials) = 1
    /\ TheAgent.profile.nftCredentials[1].contract = call.args.contract
    /\ TheAgent.profile.nftCredentials[1].assetId = call.args.assetId
    /\ TheAgent.profile.nftCredentials[1].verified


(************************** message encryption *****************************)

\* Message contents: both types, with texts of 0 to 2 bytes, so that the
\* ciphertext has every length modulo 3.
MessageContents ==
    [type : {"text", "system"},
     text : {<< >>} \cup {<< a >> : a \in {0, 255}}
            \cup {<< a, b >> : a \in {0, 255}, b \in {97, 255}}]

ChannelKeys == {0, 200}

Nonces == {[k \in 1..NonceLength |-> b] : b \in {0, 255}}

InitCipher ==
    /\ agents = [did \in Agents |-> StoredAgent(did)]
    /\ channels = << >>
    /\ invitations = << >>
    /\ messages = << >>
    /\ agentChannels = [did \in DIDs |-> << >>]
    /\ agentInvitations = [did \in DIDs |-> << >>]
    /\ now = 0
    /\ ticks = 0
    /\ nRequests = 0
    /\ nChannelIds = 0
    /\ nInvitationIds = 0
    /\ nMessageIds = 0
    /\ req = [s \in Slots |-> Idle]
    /\ response = << >>
    /\ joined = {}
    /\ call \in [fn : {"encryptMessage"}, content : MessageContents,
                 key : ChannelKeys, nonce : Nonces,
                 decryptKey : ChannelKeys, decryptNonce : Nonces]
    /\ ret = << >>

CallEncryptMessage ==
    /\ call.fn = "encryptMessage"
    /\ ret = << >>
    /\ ret' = << encryptMessage(call.content, call.key, call.nonce) >>
    /\ UNCHANGED << serviceVars, call >>

\* decryptMessage of the ciphertext returned, with the nonce returned or with
\* the text of another nonce.
CallDecryptMessage ==
    /\ call.fn = "encryptMessage"
    /\ Len(ret) = 1
    /\ ret' = ret \o << decryptMessage(ret[1].ciphertext,
                                       IF call.decryptNonce = call.nonce
                                       THEN ret[1].nonce
                                       ELSE arrayBufferToBase64(call.decryptNonce),
                                       call.decryptKey) >>
    /\ UNCHANGED << serviceVars, call >>

NextCipher == CallEncryptMessage \/ CallDecryptMessage

SpecCipher == InitCipher /\ [][NextCipher]_vars

\* C23: decryptMessage of the ciphertext and nonce that encryptMessage(m, k,
\* n) returns, with the key k, returns m; with another key or another nonce
\* it does not return m.
C23_DecryptInvertsEncrypt ==
    (call.fn = "encryptMessage" /\ Len(ret) = 2) =>
        IF call.decryptKey = call.key /\ call.decryptNonce = call.nonce
        THEN ret[2] = [error |-> "", value |-> << call.content >>]
        ELSE ret[2].value # << call.content >>

\* A content whose ciphertext is padded in base64 came back from
\* decryptMessage with the key and nonce it was encrypted with.
C23_PaddedCiphertextDecrypted ==
    /\ call.fn = "encryptMessage" /\ Len(ret) = 2
    /\ call.decryptKey = call.key /\ call.decryptNonce = call.nonce
    /\ ret[1].ciphertext[Len(ret[1].ciphertext)] = "="
    /\ Len(call.content.text) > 0
    /\ ret[2].value = << call.content >>


(************************** client orchestrator ****************************)

\* generateKeyPair by the client: the exported public key and the exported
\* private key, three bytes for each.  The two exports are never the same
\* bytes.
KeyPairs ==
    { [publicKey |-> << 1, 2, 3 >>, privateKey |-> << 21, 22, 23 >>],
      [publicKey |-> << 4, 5, 6 >>, privateKey |-> << 31, 32, 33 >>] }

\* The HMAC of the payload under the first bytes of the private key.
signPayload(payload, privateKey) == Hmac(privateKey, payload)

\* importChannelKey of a base64 text: the AES key, modelled by its first byte.
importChannelKey(keyBase64) == base64ToArrayBuffer(keyBase64)[1]

\* The body of a request of the client: every key that some request carries,
\* << >> for a key that the body does not have.
NoBody ==
    [publicKey |-> << >>, privateKey |-> << >>, profile |-> << >>,
     signature |-> << >>, participants |-> << >>, accessControl |-> << >>,
     metadata |-> << >>, updates |-> << >>, channelId |-> << >>,
     nonce |-> << >>, ciphertext |-> << >>]

\* request(path, options): the X-Agent-DID header is set when there are
\* credentials.
ClientRequest(credentials, method, path, body) ==
    [method |-> method, path |-> path,
     header |-> IF credentials = << >> THEN << >> ELSE << credentials[1].did >>,
     body |-> body]

\* What the route of the request hands to the operation it calls as the
\* creator's private key: POST /channels passes body.privateKey to
\* createChannel.
creatorPrivateKey(request) ==
    IF request.method = "POST" /\ request.path = << "channels" >>
    THEN request.body.privateKey
    ELSE << >>

\* The client: its credentials, the copy of them in its own storage, its
\* cache of channel keys, and the request it issued last.
NewClient ==
    [credentials |-> << >>, stored |-> << >>, channelKeys |-> << >>,
     request |-> << >>]

TheClient == ret[1]

IsClient == call.fn \in {"client", "register", "importCredentials", "logout",
                         "updateProfile", "createChannel", "acceptInvitation",
                         "sendMessage"}

HasCredentials == IsClient /\ TheClient.credentials # << >>

\* The profiles that a client registers with.
ClientProfiles ==
    {p \in RequestProfiles : p.reputation = 0 /\ p.nftCredentials = << >>}

\* The credentials that are imported: of a registered agent or of none, with
\* its public key or another.
ImportedCredentials ==
    {[did |-> did, publicKey |-> kp.publicKey, privateKey |-> kp.privateKey] :
        did \in {"alice", Unregistered}, kp \in KeyPairs}

InitClient ==
    /\ agents = [did \in Agents |-> StoredAgent(did)]
    /\ channels = << >>
    /\ invitations = << >>
    /\ messages = << >>
    /\ agentChannels = [did \in DIDs |-> << >>]
    /\ agentInvitations = [did \in DIDs |-> << >>]
    /\ now = 0
    /\ ticks = 0
    /\ nRequests = 0
    /\ nChannelIds = 0
    /\ nInvitationIds = 0
    /\ nMessageIds = 0
    /\ req = [s \in Slots |-> Idle]
    /\ response = << >>
    /\ joined = {}
    /\ call = [fn |-> "client"]
    /\ ret = << NewClient >>

\* register(profile).  The server answers with createAgent of the body; the
\* credentials are stored when the answer is a success.
ClientRegister ==
    /\ IsClient
    /\ \E keyPair \in KeyPairs, profile \in ClientProfiles :
        LET payload == [publicKey |-> keyPair.publicKey, profile |-> profile]
            signature == signPayload(payload, keyPair.privateKey)
            body == [NoBody EXCEPT !.publicKey = keyPair.publicKey,
                                   !.profile = << profile >>,
                                   !.signature = << signature >>]
            request == ClientRequest(TheClient.credentials, "POST",
                                     << "agents", "register" >>, body)
            answer == createAgent([publicKey |-> body.publicKey,
                                   profile |-> profile,
                                   signature |-> body.signature], now)
            credentials ==
                [did |-> answer.value[1].did, publicKey |-> keyPair.publicKey,
                 privateKey |-> keyPair.privateKey, agent |-> answer.value[1]]
        IN  /\ call' = [fn |-> "register", args |-> profile]
            /\ ret' = << IF answer.error = ""
                         THEN [TheClient EXCEPT !.request = << request >>,
                                                !.credentials = << credentials >>,
                                                !.stored = << credentials >>]
                         ELSE [TheClient EXCEPT !.request = << request >>] >>
    /\ UNCHANGED serviceVars

\* importCredentials(credentials): GET /agents/:did, then the comparison of
\* the public keys.
ClientImportCredentials ==
    /\ IsClient
    /\ \E imported \in ImportedCredentials :
        LET request == ClientRequest(TheClient.credentials, "GET",
                                     << "agents", imported.did >>, NoBody)
            agent == getAgent(imported.did)
            credentials == [did |-> imported.did,
                            publicKey |-> imported.publicKey,
                            privateKey |-> imported.privateKey,
                            agent |-> agent[1]]
        IN  /\ call' = [fn |-> "importCredentials", args |-> imported]
            /\ ret' = << IF agent # << >> /\ agent[1].publicKey = imported.publicKey
                         THEN [TheClient EXCEPT !.request = << request >>,
                                                !.credentials = << credentials >>,
                                                !.stored = << credentials >>]
                         ELSE [TheClient EXCEPT !.request = << request >>] >>
    /\ UNCHANGED serviceVars

ClientLogout ==
    /\ IsClient
    /\ call' = [fn |-> "logout"]
    /\ ret' = << [TheClient EXCEPT !.credentials = << >>, !.stored = << >>,
                                   !.channelKeys = << >>] >>
    /\ UNCHANGED serviceVars

\* updateProfile(updates): the agent of the answer replaces the cached one.
ClientUpdateProfile ==
    /\ HasCredentials
    /\ \E updates \in {u \in ProfileUpdates :
                          u.reputation = << >> /\ u.nftCredentials = << >>} :
        LET credentials == TheClient.credentials[1]
            request == ClientRequest(TheClient.credentials, "PATCH",
                                     << "agents", credentials.did >>,
                                     [NoBody EXCEPT !.updates = << updates >>])
            updated == [credentials EXCEPT
                           !.agent = updateAgentProfile(@, updates)]
        IN  /\ call' = [fn |-> "updateProfile", args |-> updates]
            /\ ret' = << [TheClient EXCEPT !.request = << request >>,
                                           !.credentials = << updated >>,
                                           !.stored = << updated >>] >>
    /\ UNCHANGED serviceVars

\* createChannel(participants, options).
ClientCreateChannel ==
    /\ HasCredentials
    /\ \E participants \in {<< >>, << "bob" >>, << "bob", "carol" >>},
          accessControl \in {<< >>, Policy("open", << >>, << >>)} :
        LET credentials == TheClient.credentials[1]
            body == [NoBody EXCEPT !.participants = participants,
                                   !.accessControl = accessControl,
                                   !.privateKey = credentials.privateKey]
            request == ClientRequest(TheClient.credentials, "POST",
                                     << "channels" >>, body)
        IN  /\ call' = [fn |-> "createChannel", args |-> participants]
            /\ ret' = << [TheClient EXCEPT !.request = << request >>] >>
    /\ UNCHANGED serviceVars

\* acceptInvitation(invitationId); joinChannel, leaveChannel and
\* rejectInvitation issue a POST without a body in the same way.
ClientAcceptInvitation ==
    /\ HasCredentials
    /\ \E invitationId \in 1..2 :
        LET request == ClientRequest(TheClient.credentials, "POST",
                                     << "invitations", invitationId, "accept" >>,
                                     NoBody)
        IN  /\ call' = [fn |-> "acceptInvitation", args |-> invitationId]
            /\ ret' = << [TheClient EXCEPT !.request = << request >>] >>
    /\ UNCHANGED serviceVars

\* getChannelKey(channelId): the cached key, or the key derived from the
\* private key and the channel id, which is then cached.
getChannelKey(client, channelId) ==
    LET cached == SelectSeq(client.channelKeys, LAMBDA e : e.channelId = channelId)
        credentials == client.credentials[1]
        keyMaterial == sha256(credentials.privateKey \o << 58, 48 + channelId >>)
    IN  IF cached # << >> THEN cached[1].key
        ELSE importChannelKey(Slice0(keyMaterial, 44))

\* sendMessage(channelId, content).
ClientSendMessage ==
    /\ HasCredentials
    /\ \E channelId \in 1..2, nonce \in Nonces,
          content \in {c \in MessageContents : c.type = "text" /\ Len(c.text) = 1} :
        LET channelKey == getChannelKey(TheClient, channelId)
            keys == IF \E k \in 1..Len(TheClient.channelKeys) :
                          TheClient.channelKeys[k].channelId = channelId
                    THEN TheClient.channelKeys
                    ELSE Append(TheClient.channelKeys,
                                [channelId |-> channelId, key |-> channelKey])
            encrypted == encryptMessage(content, channelKey, nonce)
            body == [NoBody EXCEPT !.channelId = << channelId >>,
                                   !.nonce = << encrypted.nonce >>,
                                   !.ciphertext = << encrypted.ciphertext >>]
            request == ClientRequest(TheClient.credentials, "POST",
                                     << "messages" >>, body)
        IN  /\ call' = [fn |-> "sendMessage", args |-> channelId]
            /\ ret' = << [TheClient EXCEPT !.request = << request >>,
                                           !.channelKeys = keys] >>
    /\ UNCHANGED serviceVars

NextClient ==
    \/ ClientRegister
    \/ ClientImportCredentials
    \/ ClientLogout
    \/ ClientUpdateProfile
    \/ ClientCreateChannel
    \/ ClientAcceptInvitation
    \/ ClientSendMessage

SpecClient == InitClient /\ [][NextClient]_vars

\* C24: the private key of an agent is never transmitted to the server: no
\* request that the client issues carries a private key in its body, and the
\* server-side operation that the request reaches receives none.
C24_PrivateKeyStaysOnClient ==
    (IsClient /\ TheClient.request # << >>) =>
        LET request == TheClient.request[1] IN
        /\ request.body.privateKey = << >>
        /\ \A keyPair \in KeyPairs : request.body.publicKey # keyPair.privateKey
        /\ creatorPrivateKey(request) = << >>


(***************************** error answers *******************************)

\* The status codes of failure that the interface lists for each endpoint,
\* with 401 for the endpoints that require authentication.
ListedErrors(op) ==
    CASE op = "any" -> {401}
      [] op = "register" -> {400, 409}
      [] op = "updateProfile" -> {401, 404}
      [] op = "createChannel" -> {400, 401}
      [] op = "getChannel" -> {401, 403, 404}
      [] op = "join" -> {401, 403, 404}
      [] op = "leave" -> {400, 401, 404}
      [] op \in {"accept", "reject"} -> {400, 401, 403, 404}
      [] op = "sendMessage" -> {400, 401, 404}
      [] op = "getMessages" -> {401, 403, 404}
      [] OTHER -> {401}

\* C25: every failing request is answered with the envelope {success: false,
\* error, hint?} and a status code listed for its endpoint, also a join
\* request to a channel that already holds maxParticipants participants.
C25_FailuresAreEnvelopes ==
    \A k \in 1..Len(response) :
        response[k].status >= 400 =>
            /\ response[k].json
            /\ response[k].error # ""
            /\ response[k].status \in ListedErrors(response[k].op)


(***************************** authentication ******************************)

\* Handlers of authenticated endpoints, with every write they lead to.
NextAuth ==
    \E s \in Slots :
        \/ CreateChannel(s)
        \/ PostJoin(s)
        \/ PatchAgent(s)
        \/ PostNft(s)
        \/ SaveAgent(s)
        \/ AuthenticationRequired(s)

SpecAuth == Init /\ [][NextAuth]_vars

\* The header is a valid DID that names a registered agent.
Authenticated(header) ==
    /\ getAgentDID(header) # << >>
    /\ getAgent(header) # << >>

\* C26: a request to an authenticated endpoint whose X-Agent-DID header is
\* absent, is not a valid DID, or names no registered agent is refused and
\* performs no storage write: it is answered with a failure in the step in
\* which it arrives and is never in flight, and every storage write is a step
\* of a request in flight.
C26_UnauthenticatedRefusedWithoutWrite ==
    [][ /\ \A s \in Slots :
            (req[s].pc = "idle" /\ req'[s].pc # "idle") =>
                Authenticated(req'[s].header)
        /\ (nRequests' # nRequests /\ response' # << >>
                /\ ~Authenticated(response'[1].header)) =>
                    /\ response'[1].status >= 400
                    /\ storeVars' = storeVars
        /\ storeVars' # storeVars =>
                \E s \in Slots : /\ req[s].pc \notin {"idle", "done"}
                                 /\ req'[s] # req[s]
                                 /\ Authenticated(req[s].header) ]_vars

\* A request to PATCH /agents/:did whose header names no registered agent was
\* answered 404, with nothing stored for the DID.
C26_UnregisteredPatchRefused ==
    /\ response # << >>
    /\ response[1].op = "updateProfile"
    /\ response[1].header = Unregistered
    /\ response[1].status = 404
    /\ getAgent(Unregistered) = << >>


(*************************** message validation ****************************)

\* The requests, channels and senders that validateMessage is applied to: a
\* field of the request is 0 or "" when it is missing or empty.
ValidateCalls ==
    [fn : {"validateMessage"},
     message : [channelId : {0, 1, 2}, nonce : {"", "n"}, ciphertext : {"", "c"}],
     channel : [id : {1, 2}, participants : {<< "alice" >>, << "alice", "bob" >>}],
     senderDID : {"alice", "bob", Unregistered}]

InitValidate ==
    /\ agents = [did \in Agents |-> StoredAgent(did)]
    /\ channels = << >>
    /\ invitations = << >>
    /\ messages = << >>
    /\ agentChannels = [did \in DIDs |-> << >>]
    /\ agentInvitations = [did \in DIDs |-> << >>]
    /\ now = 0
    /\ ticks = 0
    /\ nRequests = 0
    /\ nChannelIds = 0
    /\ nInvitationIds = 0
    /\ nMessageIds = 0
    /\ req = [s \in Slots |-> Idle]
    /\ response = << >>
    /\ joined = {}
    /\ call \in ValidateCalls
    /\ ret = << >>

CallValidateMessage ==
    /\ call.fn = "validateMessage"
    /\ ret = << >>
    /\ ret' = << validateMessage(call.message, call.channel, call.senderDID) >>
    /\ UNCHANGED << serviceVars, call >>

NextValidate == CallValidateMessage

SpecValidate == InitValidate /\ [][NextValidate]_vars

\* C27: validateMessage reports the first rule that fails, in this order:
\* 'Not a channel participant', then 'Missing required fields' (channelId,
\* nonce or ciphertext missing or empty), then 'Channel ID mismatch'; the
\* message is valid exactly when all three rules pass.
C27_FirstFailingRule ==
    (call.fn = "validateMessage" /\ ret # << >>) =>
        LET m == call.message
            stranger == \A k \in 1..Len(call.channel.participants) :
                            call.channel.participants[k] # call.senderDID
            missing == m.channelId = 0 \/ m.nonce = "" \/ m.ciphertext = ""
            mismatch == m.channelId # call.channel.id
        IN  /\ stranger => ret[1].error = "Not a channel participant"
            /\ (~stranger /\ missing) => ret[1].error = "Missing required fields"
            /\ (~stranger /\ ~missing /\ mismatch) =>
                   ret[1].error = "Channel ID mismatch"
            /\ ret[1].valid <=> (~stranger /\ ~missing /\ ~mismatch)
            /\ ret[1].valid => ret[1].error = ""

\* A participant's request without channel id, which also differs from the
\* channel's id, was reported for its missing field.
C27_MissingBeforeMismatch ==
    /\ call.fn = "validateMessage" /\ ret # << >>
    /\ Includes(call.channel.participants, call.senderDID)
    /\ call.message.channelId = 0
    /\ call.message.nonce # "" /\ call.message.ciphertext # ""
    /\ ret[1] = Invalid("Missing required fields")


(**************************** channel creation *****************************)

\* The requests that createChannel is applied to, with alice as the creator:
\* one invitee, two, one named twice, the creator among them, the creator
\* alone, none, and one that is not registered.
CreateCalls ==
    [fn : {"createChannel"},
     participants : {<< "bob" >>, << "bob", "carol" >>, << "bob", "bob" >>,
                     << "alice", "bob" >>, << "alice" >>, << >>,
                     << "bob", Unregistered >>},
     accessControl : {<< >>, Policy("open", << >>, << >>)},
     channelId : {1, 2},
     t : {0, 1, 5}]

InitCreate ==
    /\ agents = [did \in Agents |-> StoredAgent(did)]
    /\ channels = << >>
    /\ invitations = << >>
    /\ messages = << >>
    /\ agentChannels = [did \in DIDs |-> << >>]
    /\ agentInvitations = [did \in DIDs |-> << >>]
    /\ now = 0
    /\ ticks = 0
    /\ nRequests = 0
    /\ nChannelIds = 0
    /\ nInvitationIds = 0
    /\ nMessageIds = 0
    /\ req = [s \in Slots |-> Idle]
    /\ response = << >>
    /\ joined = {}
    /\ call \in CreateCalls
    /\ ret = << >>

CallCreateChannel ==
    /\ call.fn = "createChannel"
    /\ ret = << >>
    /\ ret' = << createChannel(Body(call.participants, call.accessControl, 0, 0),
                               "alice", call.channelId, 1, call.t) >>
    /\ UNCHANGED << serviceVars, call >>

NextCreate == CallCreateChannel

SpecCreate == InitCreate /\ [][NextCreate]_vars

\* C28: channel creation emits exactly one invitation for each distinct
\* participant other than the creator and none for the creator; each
\* invitation is pending, its inviter is the creator, its invitee that
\* participant, its channelId the id of the new channel, and its expiresAt
\* its createdAt + 7 * 86,400,000 ms.
C28_OneInvitationPerInvitee ==
    (call.fn = "createChannel" /\ ret # << >> /\ ret[1].error = "") =>
        LET channel == ret[1].value[1].channel
            emitted == ret[1].value[1].invitations
            others == {channel.participants[k] : k \in 1..Len(channel.participants)}
                          \ {channel.createdBy}
        IN  /\ \A did \in others :
                   Cardinality({k \in 1..Len(emitted) : emitted[k].invitee = did}) = 1
            /\ \A k \in 1..Len(emitted) :
                   /\ emitted[k].invitee \in others
                   /\ emitted[k].status = "pending"
                   /\ emitted[k].inviter = channel.createdBy
                   /\ emitted[k].channelId = channel.id
                   /\ emitted[k].expiresAt * MsPerSecond
                          = emitted[k].createdAt * MsPerSecond + 7 * 86400000


NextCrash ==
    \E s \in Slots :
        \/ CreateChannel(s)
        \/ CreationFails(s)
        \/ PostAccept(s)
        \/ PostReject(s)
        \/ UpdateInvitation(s)
        \/ AcceptGetChannel(s)

SpecCrash == Init /\ [][NextCrash]_vars

\* C30: channel creation writes the channel record before any of its
\* invitation records: in every reachable storage state, also after a crash
\* or a failed write between two writes, every stored invitation of a
\* creation refers to a channel record that is stored.
C30_ChannelBeforeInvitations ==
    \A id \in DOMAIN invitations :
        /\ invitations[id].channelId \in DOMAIN channels
        /\ channels[invitations[id].channelId].id = invitations[id].channelId

\* A creation for two invitees stopped between its two invitation writes: the
\* channel and the first invitation are stored, the second never is.
C30_StoppedBetweenInvitations ==
    /\ \A s \in Slots : req[s].pc = "idle"
    /\ nInvitationIds = 2
    /\ DOMAIN invitations = {1}
    /\ invitations[1].channelId \in DOMAIN channels


(************************** invitation index *******************************)

\* saveInvitation by interleaved callers, and the listing of an agent's
\* pending invitations from its index.
NextIndex ==
    \/ \E s \in Slots :
        \/ SaveInvitationCall(s)
        \/ SaveInvitation(s)
        \/ AddInvitationToAgentGet(s)
        \/ AddInvitationToAgentPut(s)
        \/ GetInvitations(s)
        \/ GetAgentInvitationsGet(s)
        \/ UpdateInvitation(s)
    \/ Tick

SpecIndex == Init /\ [][NextIndex]_vars

\* A saveInvitation of the invitation id has not returned yet.
Saving(id) ==
    \E s \in Slots :
        /\ req[s].pc \in {"saveInvitation", "addInvitationToAgent",
                          "addInvitationToAgent_put"}
        /\ req[s].invitations[req[s].i].id = id

\* C31: after every completed saveInvitation the invitation-id index of the
\* invitee contains the id of the invitation, also when invitations for one
\* invitee are saved by interleaved requests: no stored invitation whose
\* saveInvitation has returned is missing from the index that the invitee's
\* list of pending invitations is read from.
C31_SavedInvitationIndexed ==
    \A id \in DOMAIN invitations :
        ~Saving(id) =>
            Includes(agentInvitations[invitations[id].invitee], id)


(**************************** message paging *******************************)

\* The timestamps of the messages stored in channel 1, by message id; message
\* 5 is stored in channel 2.
PageStamps == << 1, 3, 2, 2, 2 >>

\* An option of getChannelMessages: << >> when it is not supplied.
PageCalls ==
    [fn : {"getChannelMessages"},
     channelId : {1, 2},
     limit : {<< >>, << 0 >>, << 1 >>, << 2 >>, << 5 >>},
     before : {<< >>, << 0 >>, << 2 >>, << 3 >>},
     after : {<< >>, << 1 >>, << 2 >>}]

InitPage ==
    /\ agents = [did \in Agents |-> StoredAgent(did)]
    /\ channels = << >>
    /\ invitations = << >>
    /\ messages =
           [id \in 1..Len(PageStamps) |->
               createEncryptedMessage([channelId |-> IF id = 5 THEN 2 ELSE 1,
                                       nonce |-> "nonce", ciphertext |-> "cipher",
                                       ephemeralPubKey |-> << >>],
                                      "alice", id, PageStamps[id])]
    /\ agentChannels = [did \in DIDs |-> << >>]
    /\ agentInvitations = [did \in DIDs |-> << >>]
    /\ now = 0
    /\ ticks = 0
    /\ nRequests = 0
    /\ nChannelIds = 0
    /\ nInvitationIds = 0
    /\ nMessageIds = Len(PageStamps)
    /\ req = [s \in Slots |-> Idle]
    /\ response = << >>
    /\ joined = {}
    /\ call \in PageCalls
    /\ ret = << >>

\* An option that is not supplied is undefined, which is falsy as 0 is.
Supplied(option) == IF option = << >> THEN 0 ELSE option[1]

CallGetChannelMessages ==
    /\ call.fn = "getChannelMessages"
    /\ ret = << >>
    /\ ret' = << getChannelMessages(call.channelId,
                                    [limit |-> Supplied(call.limit),
                                     before |-> Supplied(call.before),
                                     after |-> Supplied(call.after)]) >>
    /\ UNCHANGED << serviceVars, call >>

NextPage == CallGetChannelMessages

SpecPage == InitPage /\ [][NextPage]_vars

\* C32: getChannelMessages returns exactly the stored messages of the channel
\* whose timestamp is strictly below before and strictly above after, each
\* bound applied whenever it is supplied, ordered by timestamp descending, and
\* truncated to the limit most recent of them when a limit is supplied.
C32_PageIsFilteredSortedLimited ==
    (call.fn = "getChannelMessages" /\ ret # << >>) =>
        LET page == ret[1]
            wanted == {id \in DOMAIN messages :
                          /\ messages[id].channelId = call.channelId
                          /\ call.before # << >> =>
                                 messages[id].timestamp < call.before[1]
                          /\ call.after # << >> =>
                                 messages[id].timestamp > call.after[1]}
            got == {page[k].id : k \in 1..Len(page)}
        IN  /\ \A k \in 1..Len(page) : page[k] = messages[page[k].id]
            /\ Cardinality(got) = Len(page)
            /\ \A k \in 1..(Len(page) - 1) :
                   page[k].timestamp >= page[k + 1].timestamp
            /\ got \subseteq wanted
            /\ IF call.limit = << >>
               THEN got = wanted
               ELSE /\ Len(page) = Min(call.limit[1], Cardinality(wanted))
                    /\ \A id \in wanted \ got : \A k \in 1..Len(page) :
                           page[k].timestamp >= messages[id].timestamp


(*************************** adding participants ***************************)

\* The channels that addParticipant is applied to: of alice, with one to three
\* participants, without maximum (0) or with a maximum of 1 to 3.
AddCalls ==
    [fn : {"addParticipant"},
     participants : {<< "alice" >>, << "alice", "bob" >>,
                     << "alice", "bob", "carol" >>},
     accessControl : {<< >>, Policy("open", << >>, << >>)},
     maxParticipants : 0..3,
     participantDID : {"alice", "bob", "carol", Unregistered}]

\* The channel of a call.
AddChannel(c) ==
    [createChannel(Body(<< "bob" >>, c.accessControl, c.maxParticipants, 0),
                   "alice", 1, 1, 0).value[1].channel
        EXCEPT !.participants = c.participants]

InitAdd ==
    /\ agents = [did \in Agents |-> StoredAgent(did)]
    /\ channels = << >>
    /\ invitations = << >>
    /\ messages = << >>
    /\ agentChannels = [did \in DIDs |-> << >>]
    /\ agentInvitations = [did \in DIDs |-> << >>]
    /\ now = 0
    /\ ticks = 0
    /\ nRequests = 0
    /\ nChannelIds = 0
    /\ nInvitationIds = 0
    /\ nMessageIds = 0
    /\ req = [s \in Slots |-> Idle]
    /\ response = << >>
    /\ joined = {}
    /\ call \in AddCalls
    /\ ret = << >>

CallAddParticipant ==
    /\ call.fn = "addParticipant"
    /\ ret = << >>
    /\ ret' = << addParticipant(AddChannel(call), call.participantDID) >>
    /\ UNCHANGED << serviceVars, call >>

NextAdd == CallAddParticipant

SpecAdd == InitAdd /\ [][NextAdd]_vars

C34_StoredMessageIsTheRequests ==
    [][ /\ \A s \in Slots :
             (req[s].pc # "saveMessage" /\ req'[s].pc = "saveMessage") =>
               \A agent \in DIDs, channelId \in ChannelIds :
                 \A body \in SendMessageBodies(channelId) :
                   PostMessagesWith(s, agent, channelId, body) =>
                   LET message == req'[s].message[1] IN
                   /\ message.sender = agent
                   /\ getAgent(agent) # << >>
                   /\ message.channelId = channelId
                   /\ message.nonce = body.nonce
                   /\ message.ciphertext = body.ciphertext
                   /\ message.ephemeralPubKey = body.ephemeralPubKey
                   /\ message.timestamp = now
                   /\ message.id \notin DOMAIN messages
        /\ \A s \in Slots :
               (req[s].pc = "saveMessage" /\ req'[s].pc # "saveMessage") =>
                   /\ req[s].message[1].id \in DOMAIN messages'
                   /\ messages'[req[s].message[1].id] = req[s].message[1]
        /\ \A id \in DOMAIN messages :
               /\ id \in DOMAIN messages'
               /\ messages'[id] = messages[id]
        /\ (response' # << >> /\ response'[1].op = "getMessages") =>
               \A k \in 1..Len(response'[1].data) :
                   /\ response'[1].data[k] \in DOMAIN messages
                   /\ messages[response'[1].data[k]].channelId
                          = response'[1].channelId ]_vars

\* A message that carries an ephemeral public key was stored and then read.
C34_StoredMessageRead ==
    /\ response # << >>
    /\ response[1].op = "getMessages"
    /\ response[1].status = 200
    /\ Len(response[1].data) > 0
    /\ messages[response[1].data[1]].ephemeralPubKey # << >>
    /\ messages[response[1].data[1]].sender \in DOMAIN agents


(************************ the key of a channel ******************************)
(* Two clients, each with the credentials of one participant of a channel:  *)
(* one sends a message with sendMessage, the server stores it, and the      *)
(* other decrypts the stored message with decryptMessageContent.            *)

\* The two participants, each with the key pair it generated.
ExchangeParticipants == {"alice", "bob"}

ExchangeKeyPair(did) ==
    CHOOSE kp \in KeyPairs :
        (did = "alice") <=> (kp.publicKey = << 1, 2, 3 >>)

\* A client after register() or importCredentials() of the participant.
ClientOf(did) ==
    [NewClient EXCEPT
        !.credentials = << [did |-> did,
                            publicKey |-> ExchangeKeyPair(did).publicKey,
                            privateKey |-> ExchangeKeyPair(did).privateKey,
                            agent |-> StoredAgent(did)] >>]

InitExchange ==
    /\ agents = [did \in Agents |-> StoredAgent(did)]
    /\ channels = << >>
    /\ invitations = << >>
    /\ messages = << >>
    /\ agentChannels = [did \in DIDs |-> << >>]
    /\ agentInvitations = [did \in DIDs |-> << >>]
    /\ now = 0
    /\ ticks = 0
    /\ nRequests = 0
    /\ nChannelIds = 0
    /\ nInvitationIds = 0
    /\ nMessageIds = 0
    /\ req = [s \in Slots |-> Idle]
    /\ response = << >>
    /\ joined = {}
    /\ call = [fn |-> "exchange"]
    /\ ret = << >>

\* decryptMessageContent(message) of a client.
decryptMessageContent(client, message) ==
    LET channelKey == getChannelKey(client, message.channelId)
    IN  decryptMessage(message.ciphertext, message.nonce, channelKey)

\* sendMessage(channelId, content) of the sender's client, and the message
\* that the server stores for its request.
ExchangeSend ==
    /\ call.fn = "exchange"
    /\ \E sender \in ExchangeParticipants, channelId \in 1..2,
          nonce \in Nonces, content \in MessageContents :
        LET channelKey == getChannelKey(ClientOf(sender), channelId)
            encrypted == encryptMessage(content, channelKey, nonce)
            body == [channelId |-> channelId, nonce |-> encrypted.nonce,
                     ciphertext |-> encrypted.ciphertext,
                     ephemeralPubKey |-> << >>]
        IN  /\ call' = [fn |-> "exchangeSent"]
            /\ ret' = << [sender |-> sender, content |-> content,
                          message |-> createEncryptedMessage(body, sender, 1, now),
                          receiver |-> "", result |-> << >>] >>
    /\ UNCHANGED serviceVars

\* decryptMessageContent(message) of the receiver's client.
ExchangeDecrypt ==
    /\ call.fn = "exchangeSent"
    /\ \E receiver \in ExchangeParticipants :
        /\ call' = [fn |-> "exchangeRead"]
        /\ ret' = << [ret[1] EXCEPT
                         !.receiver = receiver,
                         !.result = << decryptMessageContent(ClientOf(receiver),
                                                            ret[1].message) >>] >>
    /\ UNCHANGED serviceVars

NextExchange ==
    \/ ExchangeSend
    \/ ExchangeDecrypt

SpecExchange == InitExchange /\ [][NextExchange]_vars

\* C35: for two participants A and B of a channel, the channel key that A's
\* client encrypts with equals the key that B's client decrypts with, so B's
\* decryptMessageContent of a message sent by A returns the content sent.
C35_ParticipantsShareChannelKey ==
    (call.fn = "exchangeRead" /\ ret[1].sender # ret[1].receiver) =>
        /\ getChannelKey(ClientOf(ret[1].sender), ret[1].message.channelId)
             = getChannelKey(ClientOf(ret[1].receiver), ret[1].message.channelId)
        /\ ret[1].result[1] = Returned(ret[1].content)

\* A client decrypts the messages that it sent itself.
ExchangeOwnMessageRead ==
    (call.fn = "exchangeRead" /\ ret[1].sender = ret[1].receiver) =>
        ret[1].result[1] = Returned(ret[1].content)


(************************* the first registration ***************************)

\* C36: the registration request that the client builds carries a signature
\* that passes verifySignature(payload, signature, publicKey) inside
\* createAgent, for every generated key pair, so that the first registration
\* of an honest client succeeds.
C36_ClientRegistrationVerifies ==
    (IsClient /\ call.fn = "register") =>
        LET body == TheClient.request[1].body
            payload == [publicKey |-> body.publicKey, profile |-> body.profile[1]]
        IN  /\ verifySignature(payload, body.signature, body.publicKey)
            /\ createAgent([publicKey |-> body.publicKey,
                            profile |-> body.profile[1],
                            signature |-> body.signature], now).error = ""


(********************** the channel list of an agent ************************)

\* No request is in flight.
Quiescent == \A s \in Slots : req[s] = Idle

\* C37: in every state without a request in flight, the channel-id index of
\* an agent contains a channel id exactly when the agent is one of the stored
\* participants of that channel; after an agent has left a channel, its
\* channel list no longer contains the channel.
C37_IndexMatchesParticipants ==
    Quiescent =>
        \A did \in DIDs, id \in ChannelIds :
            (\E k \in 1..Len(agentChannels[did]) : agentChannels[did][k] = id)
              <=> /\ id \in DOMAIN channels
                  /\ \E k \in 1..Len(channels[id].participants) :
                         channels[id].participants[k] = did


(*************************** concurrent joins *******************************)
(* An open channel of alice without a maximum of participants is stored,    *)
(* and the other agents join it with requests whose storage operations      *)
(* interleave.                                                              *)

InitJoin ==
    /\ agents = [did \in Agents |-> StoredAgent(did)]
    /\ channels =
           1 :> createChannel(Body(<< "alice" >>, Policy("open", << >>, << >>),
                                   0, 0),
                              "alice", 1, 1, 0).value[1].channel
    /\ invitations = << >>
    /\ messages = << >>
    /\ agentChannels = [did \in DIDs |-> IF did = "alice" THEN << 1 >> ELSE << >>]
    /\ agentInvitations = [did \in DIDs |-> << >>]
    /\ now = 0
    /\ ticks = 0
    /\ nRequests = 0
    /\ nChannelIds = 1
    /\ nInvitationIds = 0
    /\ nMessageIds = 0
    /\ req = [s \in Slots |-> Idle]
    /\ response = << >>
    /\ joined = {}
    /\ call = NoCall
    /\ ret = << >>

NextJoin ==
    \E s \in Slots :
        \/ PostJoin(s)
        \/ SaveChannel(s)
        \/ AddChannelToAgentGet(s)
        \/ AddChannelToAgentPut(s)

SpecJoin == InitJoin /\ [][NextJoin]_vars

\* C38: when the join requests of two different agents for the same channel
\* interleave at their storage reads and writes and both are answered with
\* success, both agents are among the stored participants of the channel
\* once both requests have completed.
C38_ConcurrentJoinsBothStored ==
    Quiescent =>
        \A pair \in joined :
            /\ pair[1] \in DOMAIN channels
            /\ Includes(channels[pair[1]].participants, pair[2])


(************************ accepting an invitation ***************************)

\* The accept request just answered went past acceptInvitation: it was
\* answered with success, or addParticipant threw.
AcceptAnswered ==
    /\ response # << >>
    /\ response[1].op = "accept"
    /\ response[1].invitationId \in DOMAIN invitations
    /\ invitations[response[1].invitationId].invitee = response[1].agent
    /\ \/ response[1].status = 200
       \/ response[1].error = "Channel has reached maximum participants"

\* The caller of the request just answered is a stored participant of the
\* channel of the invitation.
AcceptorIsParticipant ==
    LET invitation == invitations[response[1].invitationId] IN
    /\ invitation.channelId \in DOMAIN channels
    /\ Includes(channels[invitation.channelId].participants, response[1].agent)

\* C39: an invitation is stored as accepted only if, when its accept request
\* completes, the invitee is among the stored participants of the channel;
\* when adding the participant fails because the channel is full, or the
\* channel no longer exists, the stored invitation is still pending.
C39_AcceptedOnlyWithParticipant ==
    AcceptAnswered =>
        LET invitation == invitations[response[1].invitationId] IN
        /\ invitation.status = "accepted" => AcceptorIsParticipant
        /\ ~AcceptorIsParticipant => invitation.status = "pending"


\* C40: the accept endpoint adds the caller to the participants and answers
\* success with the wrapped key only when the resulting status of the
\* invitation is accepted; an accept of an invitation whose expiry has passed
\* leaves the participants of the channel unchanged.
C40_SuccessOnlyWhenAccepted ==
    [][ \A s \in Slots :
          (req[s].op = "accept" /\ req[s].invitation # << >>) =>
             LET invitation == req[s].invitation[1] IN
             /\ (req'[s] = Idle /\ response' # << >> /\ response'[1].status = 200) =>
                    invitation.status = "accepted"
             /\ invitation.status = "expired" =>
                    \A id \in DOMAIN channels :
                        /\ id \in DOMAIN channels'
                        /\ channels'[id].participants = channels[id].participants
      ]_vars

====
